---- MODULE Spec2Model ----
(***************************************************************************)
(* A model of the generic containers of AlTimofeyev/DataStructures.        *)
(*                                                                         *)
(* BinaryTree<T> (src/BinaryTree.hpp).  A Node<T> is owned by the pointer  *)
(* that refers to it, so a tree is the set of its occupied positions: the  *)
(* root is position 1 and the left and right child of position p are the   *)
(* positions 2p and 2p+1.  `root` of a tree object is the function from    *)
(* its occupied positions to the elements stored there (the empty function *)
(* for root == nullptr); `treeSize` is the counter the class keeps beside  *)
(* it.  Pointer variables of the code hold a position, or NULL.            *)
(***************************************************************************)
EXTENDS Integers, Sequences, FiniteSets, TLC

\* Bounds of the model.
MaxNodes == 4        \* insert is explored while fewer nodes than this are live
MaxElem == 4         \* the elements are 1..MaxElem
MaxLive == 3         \* SpecCopy mutates only while at most this many nodes are live
MaxInserts == 5      \* SpecScenario inserts at most this many elements
MaxStack == 3        \* push is explored while the stack holds fewer elements
MaxList == 5         \* a list grows while it holds fewer elements than this
MaxData == 2         \* the data of the list nodes are 1..MaxData
MaxDeep == 5         \* SpecDeep inserts while the tree has fewer nodes than this
MaxPair == 3         \* SpecPair adds while its two objects hold fewer elements

Elems == 1 .. MaxElem
Trees == {"a", "b"}
NULL == 0

VARIABLES
    root,       \* root[t]: the nodes of tree object t (Node<T>* root)
    treeSize,   \* treeSize[t]: the counter of tree object t (int treeSize)
    fault,      \* a null pointer was dereferenced: the program is gone
    lastOp,     \* the call made last: operation, objects, argument, size before
    ret,        \* what the last query returned, or what the last print wrote
    inserted,   \* the arguments of the insert calls made so far (SpecInsert)
    stack,      \* stack[s]: Stack<T> object s (Node<T>* top, int stackSize)
    held,       \* the elements pushed on stack a and neither popped nor cleared,
                \* oldest first
    thrown,     \* the exception the last Stack or list call threw, or "none"
    slist,      \* slist[l]: SLinkedList<T> object l
    dlist       \* dlist[l]: DLinkedList<T> object l

vars == <<root, treeSize, fault, lastOp, ret, inserted, stack, held, thrown,
          slist, dlist>>

----------------------------------------------------------------------------
\* Node<T>: positions and links.

Left(p) == 2 * p
Right(p) == 2 * p + 1

\* node->left / node->right as a pointer value (NULL when absent).
LeftOf(r, p) == IF Left(p) \in DOMAIN r THEN Left(p) ELSE NULL
RightOf(r, p) == IF Right(p) \in DOMAIN r THEN Right(p) ELSE NULL

EmptyRoot == <<>>

\* p is q or lies in the subtree below q.
RECURSIVE InSubtree(_, _)
InSubtree(p, q) ==
    IF p = q THEN TRUE
    ELSE IF p < q THEN FALSE
    ELSE InSubtree(p \div 2, q)

\* slot = new Node<T>(element): the node has no children.
NewNode(r, p, element) ==
    [q \in DOMAIN r \cup {p} |-> IF q = p THEN element ELSE r[q]]

\* delete node: ~Node() deletes the left and the right child recursively.
DeleteNode(r, p) ==
    [q \in {x \in DOMAIN r : ~InSubtree(x, p)} |-> r[q]]

----------------------------------------------------------------------------
\* BinaryTree<T>::insert

\* insertLoop with the nodes taken from the back of the container (a stack
\* where the code has a queue).
RECURSIVE insertLoopLifo(_, _, _)
insertLoopLifo(r, treeQueue, element) ==
    IF treeQueue = <<>>
    THEN [root |-> r, returned |-> FALSE]
    ELSE LET currentNode == treeQueue[Len(treeQueue)]
             q0 == SubSeq(treeQueue, 1, Len(treeQueue) - 1)
         IN  IF LeftOf(r, currentNode) # NULL
             THEN IF r[Left(currentNode)] = element
                  THEN [root |-> r, returned |-> TRUE]
                  ELSE LET q1 == Append(q0, Left(currentNode))
                       IN  IF RightOf(r, currentNode) # NULL
                           THEN IF r[Right(currentNode)] = element
                                THEN [root |-> r, returned |-> TRUE]
                                ELSE insertLoopLifo(r, Append(q1, Right(currentNode)),
                                                    element)
                           ELSE [root |-> NewNode(r, Right(currentNode), element),
                                 returned |-> FALSE]
             ELSE [root |-> NewNode(r, Left(currentNode), element), returned |-> FALSE]

\* insertLoop looking at the right child of currentNode before its left child.
RECURSIVE insertLoopRightFirst(_, _, _)
insertLoopRightFirst(r, treeQueue, element) ==
    IF treeQueue = <<>>
    THEN [root |-> r, returned |-> FALSE]
    ELSE LET currentNode == Head(treeQueue)
             q0 == Tail(treeQueue)
         IN  IF RightOf(r, currentNode) # NULL
             THEN IF r[Right(currentNode)] = element
                  THEN [root |-> r, returned |-> TRUE]
                  ELSE LET q1 == Append(q0, Right(currentNode))
                       IN  IF LeftOf(r, currentNode) # NULL
                           THEN IF r[Left(currentNode)] = element
                                THEN [root |-> r, returned |-> TRUE]
                                ELSE insertLoopRightFirst(r, Append(q1, Left(currentNode)),
                                                          element)
                           ELSE [root |-> NewNode(r, Left(currentNode), element),
                                 returned |-> FALSE]
             ELSE [root |-> NewNode(r, Right(currentNode), element), returned |-> FALSE]

\* The loop of insert without the comparison of the right child's element.
RECURSIVE insertLoopNoRightCheck(_, _, _)
insertLoopNoRightCheck(r, treeQueue, element) ==
    IF treeQueue = <<>>
    THEN [root |-> r, returned |-> FALSE]
    ELSE LET currentNode == Head(treeQueue)
             q0 == Tail(treeQueue)
         IN  IF LeftOf(r, currentNode) # NULL
             THEN IF r[Left(currentNode)] = element
                  THEN [root |-> r, returned |-> TRUE]
                  ELSE LET q1 == Append(q0, Left(currentNode))
                       IN  IF RightOf(r, currentNode) # NULL
                           THEN insertLoopNoRightCheck(r, Append(q1, Right(currentNode)),
                                                       element)
                           ELSE [root |-> NewNode(r, Right(currentNode), element),
                                 returned |-> FALSE]
             ELSE [root |-> NewNode(r, Left(currentNode), element), returned |-> FALSE]

RECURSIVE insertLoop(_, _, _)
insertLoop(r, treeQueue, element) ==
    IF treeQueue = <<>>
    THEN [root |-> r, returned |-> FALSE]
    ELSE LET currentNode == Head(treeQueue)
             q0 == Tail(treeQueue)
         IN  IF LeftOf(r, currentNode) # NULL
             THEN IF r[Left(currentNode)] = element
                  THEN [root |-> r, returned |-> TRUE]
                  ELSE LET q1 == Append(q0, Left(currentNode))
                       IN  IF RightOf(r, currentNode) # NULL
                           THEN IF r[Right(currentNode)] = element
                                THEN [root |-> r, returned |-> TRUE]
                                ELSE insertLoop(r, Append(q1, Right(currentNode)), element)
                           ELSE [root |-> NewNode(r, Right(currentNode), element),
                                 returned |-> FALSE]
             ELSE [root |-> NewNode(r, Left(currentNode), element), returned |-> FALSE]

\* insert without the treeSize++ of its last line.
insertNoCount(tree, element) ==
    IF tree.root = EmptyRoot
    THEN [root |-> NewNode(EmptyRoot, 1, element), treeSize |-> tree.treeSize]
    ELSE IF tree.root[1] = element
    THEN tree
    ELSE LET res == insertLoop(tree.root, <<1>>, element)
         IN  IF res.returned
             THEN tree
             ELSE [root |-> res.root, treeSize |-> tree.treeSize]

insert(tree, element) ==
    IF tree.root = EmptyRoot
    THEN [root |-> NewNode(EmptyRoot, 1, element), treeSize |-> tree.treeSize + 1]
    ELSE IF tree.root[1] = element
    THEN tree
    ELSE LET res == insertLoop(tree.root, <<1>>, element)
         IN  IF res.returned
             THEN tree
             ELSE [root |-> res.root, treeSize |-> tree.treeSize + 1]

----------------------------------------------------------------------------
\* BinaryTree<T>::bfsearch

RECURSIVE bfsearchLoop(_, _, _)
bfsearchLoop(r, treeQueue, element) ==
    IF treeQueue = <<>>
    THEN FALSE
    ELSE LET currentNode == Head(treeQueue)
             q0 == Tail(treeQueue)
             q1 == IF LeftOf(r, currentNode) # NULL
                   THEN Append(q0, Left(currentNode)) ELSE q0
             q2 == IF RightOf(r, currentNode) # NULL
                   THEN Append(q1, Right(currentNode)) ELSE q1
         IN  IF r[currentNode] = element
             THEN TRUE
             ELSE bfsearchLoop(r, q2, element)

bfsearch(tree, element) ==
    IF tree.root = EmptyRoot
    THEN FALSE
    ELSE bfsearchLoop(tree.root, <<1>>, element)

\* BinaryTree<T>::dfsearch

RECURSIVE dfsearchLoop(_, _, _, _)
dfsearchLoop(r, treeStack, currentNode, element) ==
    IF treeStack = <<>> /\ currentNode = NULL
    THEN FALSE
    ELSE IF currentNode # NULL
    THEN dfsearchLoop(r, Append(treeStack, currentNode), LeftOf(r, currentNode), element)
    ELSE LET top == treeStack[Len(treeStack)]
             popped == SubSeq(treeStack, 1, Len(treeStack) - 1)
         IN  IF r[top] = element
             THEN TRUE
             ELSE dfsearchLoop(r, popped, RightOf(r, top), element)

\* dfsearch that never follows currentNode->right.
RECURSIVE dfsearchNoRightLoop(_, _, _, _)
dfsearchNoRightLoop(r, treeStack, currentNode, element) ==
    IF treeStack = <<>> /\ currentNode = NULL
    THEN FALSE
    ELSE IF currentNode # NULL
    THEN dfsearchNoRightLoop(r, Append(treeStack, currentNode),
                             LeftOf(r, currentNode), element)
    ELSE LET top == treeStack[Len(treeStack)]
             popped == SubSeq(treeStack, 1, Len(treeStack) - 1)
         IN  IF r[top] = element
             THEN TRUE
             ELSE dfsearchNoRightLoop(r, popped, NULL, element)

dfsearchNoRight(tree, element) ==
    IF tree.root = EmptyRoot
    THEN FALSE
    ELSE dfsearchNoRightLoop(tree.root, <<1>>, LeftOf(tree.root, 1), element)

dfsearch(tree, element) ==
    IF tree.root = EmptyRoot
    THEN FALSE
    ELSE dfsearchLoop(tree.root, <<1>>, LeftOf(tree.root, 1), element)

----------------------------------------------------------------------------
\* BinaryTree<T>::clear

\* clear without its treeSize = 0.
clearKeepSize(tree) == [root |-> EmptyRoot, treeSize |-> tree.treeSize]

clear(tree) == [root |-> EmptyRoot, treeSize |-> 0]

\* BinaryTree<T>::remove

\* The loop of remove keeping the first node with a child as deepestParent
\* instead of the last one.
RECURSIVE removeLoopFirstParent(_, _, _, _, _)
removeLoopFirstParent(r, treeQueue, element, deleteNode, deepestParent) ==
    IF treeQueue = <<>>
    THEN [deleteNode |-> deleteNode, deepestParent |-> deepestParent]
    ELSE LET currentNode == Head(treeQueue)
             q0 == Tail(treeQueue)
             dn == IF r[currentNode] = element THEN currentNode ELSE deleteNode
             dp == IF /\ deepestParent = NULL
                      /\ (LeftOf(r, currentNode) # NULL \/ RightOf(r, currentNode) # NULL)
                   THEN currentNode ELSE deepestParent
             q1 == IF LeftOf(r, currentNode) # NULL
                   THEN Append(q0, Left(currentNode)) ELSE q0
             q2 == IF RightOf(r, currentNode) # NULL
                   THEN Append(q1, Right(currentNode)) ELSE q1
         IN  removeLoopFirstParent(r, q2, element, dn, dp)

RECURSIVE removeLoop(_, _, _, _, _)
removeLoop(r, treeQueue, element, deleteNode, deepestParent) ==
    IF treeQueue = <<>>
    THEN [deleteNode |-> deleteNode, deepestParent |-> deepestParent]
    ELSE LET currentNode == Head(treeQueue)
             q0 == Tail(treeQueue)
             dn == IF r[currentNode] = element THEN currentNode ELSE deleteNode
             dp == IF LeftOf(r, currentNode) # NULL \/ RightOf(r, currentNode) # NULL
                   THEN currentNode ELSE deepestParent
             q1 == IF LeftOf(r, currentNode) # NULL
                   THEN Append(q0, Left(currentNode)) ELSE q0
             q2 == IF RightOf(r, currentNode) # NULL
                   THEN Append(q1, Right(currentNode)) ELSE q1
         IN  removeLoop(r, q2, element, dn, dp)

\* remove that takes the left child of deepestParent whenever there is one.
removePreferLeft(tree, element) ==
    IF tree.root = EmptyRoot
    THEN tree
    ELSE LET s == removeLoop(tree.root, <<1>>, element, NULL, NULL)
             r == tree.root
         IN  IF s.deleteNode = NULL
             THEN tree
             ELSE IF s.deepestParent = NULL
             THEN clear(tree)
             ELSE LET last == IF LeftOf(r, s.deepestParent) # NULL
                              THEN Left(s.deepestParent)
                              ELSE Right(s.deepestParent)
                      r1 == [r EXCEPT ![s.deleteNode] = r[last]]
                  IN  [root |-> DeleteNode(r1, last), treeSize |-> tree.treeSize - 1]

\* remove without deleteNode->element = deepestParent->right->element (or
\* ->left->element): the last node goes, the element stays.
removeKeepElement(tree, element) ==
    IF tree.root = EmptyRoot
    THEN tree
    ELSE LET s == removeLoop(tree.root, <<1>>, element, NULL, NULL)
             r == tree.root
         IN  IF s.deleteNode = NULL
             THEN tree
             ELSE IF s.deepestParent = NULL
             THEN clear(tree)
             ELSE LET last == IF RightOf(r, s.deepestParent) # NULL
                              THEN Right(s.deepestParent)
                              ELSE Left(s.deepestParent)
                  IN  [root |-> DeleteNode(r, last), treeSize |-> tree.treeSize - 1]

\* remove without the return on deleteNode == nullptr: the last node is
\* deleted although no node holds the element.
removeLastWhenAbsent(tree, element) ==
    IF tree.root = EmptyRoot
    THEN tree
    ELSE LET s == removeLoop(tree.root, <<1>>, element, NULL, NULL)
             r == tree.root
         IN  IF s.deepestParent = NULL
             THEN clear(tree)
             ELSE LET last == IF RightOf(r, s.deepestParent) # NULL
                              THEN Right(s.deepestParent)
                              ELSE Left(s.deepestParent)
                      r1 == IF s.deleteNode = NULL THEN r
                            ELSE [r EXCEPT ![s.deleteNode] = r[last]]
                  IN  [root |-> DeleteNode(r1, last), treeSize |-> tree.treeSize - 1]

remove(tree, element) ==
    IF tree.root = EmptyRoot
    THEN tree
    ELSE LET s == removeLoop(tree.root, <<1>>, element, NULL, NULL)
             r == tree.root
         IN  IF s.deleteNode = NULL
             THEN tree
             ELSE IF s.deepestParent = NULL
             THEN clear(tree)
             ELSE LET last == IF RightOf(r, s.deepestParent) # NULL
                              THEN Right(s.deepestParent)
                              ELSE Left(s.deepestParent)
                      r1 == [r EXCEPT ![s.deleteNode] = r[last]]
                  IN  [root |-> DeleteNode(r1, last), treeSize |-> tree.treeSize - 1]

----------------------------------------------------------------------------
\* BinaryTree<T>::size, BinaryTree<T>::empty

size(tree) == tree.treeSize
empty(tree) == tree.treeSize = 0

----------------------------------------------------------------------------
\* BinaryTree<T>::getDepth, BinaryTree<T>::depth

\* getDepth returning the smaller of leftDepth and rightDepth.
RECURSIVE getDepthMin(_, _, _, _)
getDepthMin(r, current, element, d) ==
    IF current = NULL
    THEN -1
    ELSE IF r[current] = element
    THEN d
    ELSE LET leftDepth == getDepthMin(r, LeftOf(r, current), element, d + 1)
             rightDepth == getDepthMin(r, RightOf(r, current), element, d + 1)
         IN  IF leftDepth < rightDepth THEN leftDepth ELSE rightDepth

RECURSIVE getDepth(_, _, _, _)
getDepth(r, current, element, d) ==
    IF current = NULL
    THEN -1
    ELSE IF r[current] = element
    THEN d
    ELSE LET leftDepth == getDepth(r, LeftOf(r, current), element, d + 1)
             rightDepth == getDepth(r, RightOf(r, current), element, d + 1)
         IN  IF leftDepth < rightDepth THEN rightDepth ELSE leftDepth

\* depth that starts the children of the root at depth 0.
depthFromZero(tree, element) ==
    IF tree.root = EmptyRoot
    THEN -1
    ELSE IF tree.root[1] = element
    THEN 0
    ELSE LET leftDepth == getDepth(tree.root, LeftOf(tree.root, 1), element, 0)
             rightDepth == getDepth(tree.root, RightOf(tree.root, 1), element, 0)
         IN  IF leftDepth < rightDepth THEN rightDepth ELSE leftDepth

depth(tree, element) ==
    IF tree.root = EmptyRoot
    THEN -1
    ELSE IF tree.root[1] = element
    THEN 0
    ELSE LET leftDepth == getDepth(tree.root, LeftOf(tree.root, 1), element, 1)
             rightDepth == getDepth(tree.root, RightOf(tree.root, 1), element, 1)
         IN  IF leftDepth < rightDepth THEN rightDepth ELSE leftDepth

\* BinaryTree<T>::getHeight, BinaryTree<T>::height

RECURSIVE getHeight(_, _, _, _, _)
getHeight(r, current, element, h, elementFound) ==
    IF current = NULL /\ ~elementFound
    THEN -1
    ELSE IF current = NULL /\ elementFound
    THEN h
    ELSE LET h1 == IF elementFound THEN h + 1 ELSE h
             found1 == elementFound \/ r[current] = element
             leftHeight == getHeight(r, LeftOf(r, current), element, h1, found1)
             rightHeight == getHeight(r, RightOf(r, current), element, h1, found1)
         IN  IF leftHeight < rightHeight THEN rightHeight ELSE leftHeight

\* height that hands getHeight a height of 1 to start from.
heightFromOne(tree, element) ==
    IF tree.root = EmptyRoot
    THEN -1
    ELSE getHeight(tree.root, 1, element, 1, FALSE)

height(tree, element) ==
    IF tree.root = EmptyRoot
    THEN -1
    ELSE getHeight(tree.root, 1, element, 0, FALSE)

----------------------------------------------------------------------------
\* BinaryTree<T>::invert, BinaryTree<T>::invertTree

\* The position of p once the subtree rooted at `from` hangs at `to`.
RECURSIVE Rehang(_, _, _)
Rehang(p, from, to) ==
    IF p = from THEN to
    ELSE 2 * Rehang(p \div 2, from, to) + (p % 2)

\* temp = n->left; n->left = n->right; n->right = temp.
SwapChildren(r, n) ==
    LET move(p) == IF InSubtree(p, Left(n)) THEN Rehang(p, Left(n), Right(n))
                   ELSE IF InSubtree(p, Right(n)) THEN Rehang(p, Right(n), Left(n))
                   ELSE p
    IN  [q \in {move(p) : p \in DOMAIN r} |-> r[move(q)]]

\* invert that recurses into the left child only.
RECURSIVE invertLeftOnly(_, _)
invertLeftOnly(r, invertNode) ==
    IF invertNode \notin DOMAIN r
    THEN r
    ELSE LET swapped == SwapChildren(r, invertNode)
         IN  invertLeftOnly(swapped, Left(invertNode))

\* invert without its two recursive calls.
invertRootOnly(r, invertNode) ==
    IF invertNode \notin DOMAIN r
    THEN r
    ELSE SwapChildren(r, invertNode)

RECURSIVE invert(_, _)
invert(r, invertNode) ==
    IF invertNode \notin DOMAIN r
    THEN r
    ELSE LET swapped == SwapChildren(r, invertNode)
         IN  invert(invert(swapped, Left(invertNode)), Right(invertNode))

invertTree(tree) == [root |-> invert(tree.root, 1), treeSize |-> tree.treeSize]

----------------------------------------------------------------------------
\* BinaryTree<T>::print, printInorder, printPreorder, printPostorder
\* What a call writes to std::cout is the sequence of the operands of its <<
\* operators.  A string literal is written as it stands; an element (an int
\* between 0 and 9 here) is written as its decimal digit.

Digit == <<"0", "1", "2", "3", "4", "5", "6", "7", "8", "9">>
Lit(text) == [kind |-> "lit", text |-> text]
Elem(element) == [kind |-> "elem", text |-> Digit[element + 1]]

RECURSIVE print(_, _, _)
print(r, node, printOrder) ==
    IF node = NULL
    THEN <<>>
    ELSE LET left == LeftOf(r, node)
             right == RightOf(r, node)
         IN  CASE printOrder = "i" ->
                    print(r, left, printOrder)
                    \o (IF left # NULL /\ right # NULL
                        THEN <<Lit(", "), Elem(r[node]), Lit(", ")>>
                        ELSE IF left # NULL
                        THEN <<Lit(", "), Elem(r[node])>>
                        ELSE IF right # NULL
                        THEN <<Elem(r[node]), Lit(", ")>>
                        ELSE <<Elem(r[node])>>)
                    \o print(r, right, printOrder)
               [] printOrder = "r" ->
                    <<Elem(r[node])>>
                    \o (IF left # NULL /\ right # NULL
                        THEN <<Lit(", ")>> \o print(r, left, printOrder)
                             \o <<Lit(", ")>> \o print(r, right, printOrder)
                        ELSE IF left # NULL
                        THEN <<Lit(", ")>> \o print(r, left, printOrder)
                        ELSE IF right # NULL
                        THEN <<Lit(", ")>> \o print(r, right, printOrder)
                        ELSE <<>>)
               [] printOrder = "o" ->
                    (IF left # NULL /\ right # NULL
                     THEN print(r, left, printOrder) \o <<Lit(", ")>>
                          \o print(r, right, printOrder) \o <<Lit(", ")>>
                     ELSE IF left # NULL
                     THEN print(r, left, printOrder) \o <<Lit(", ")>>
                     ELSE IF right # NULL
                     THEN <<Lit(", ")>> \o print(r, right, printOrder)
                     ELSE <<>>)
                    \o <<Elem(r[node])>>

\* The body the three print functions share, but for the printOrder.
printAs(tree, printOrder) ==
    IF tree.root = EmptyRoot
    THEN <<Lit("()"), Lit("\n")>>
    ELSE <<Lit("[root: "), Elem(tree.root[1]), Lit("]\t"), Lit("(")>>
         \o print(tree.root, 1, printOrder)
         \o <<Lit(")"), Lit("\n")>>

printInorder(tree) == printAs(tree, "i")
printPreorder(tree) == printAs(tree, "r")

\* printPostorder that hands print the order of printPreorder.
printPostorderAsPreorder(tree) == printAs(tree, "r")

printPostorder(tree) == printAs(tree, "o")

----------------------------------------------------------------------------
\* BinaryTree<T>::BinaryTree(const BinaryTree<T>&)
\* copyNode->element with copyNode == nullptr (an empty source) is a null
\* pointer dereference: the construction faults.

RECURSIVE copyLoop(_, _, _, _, _)
copyLoop(newRoot, count, treeQueue, copyRoot, copyTreeQueue) ==
    IF copyTreeQueue = <<>>
    THEN [root |-> newRoot, treeSize |-> count, fault |-> FALSE]
    ELSE LET currentNode == Head(treeQueue)
             copyNode == Head(copyTreeQueue)
         IN  IF copyNode = NULL
             THEN [root |-> newRoot, treeSize |-> count, fault |-> TRUE]
             ELSE LET r1 == NewNode(newRoot, currentNode, copyRoot[copyNode])
                      hasL == LeftOf(copyRoot, copyNode) # NULL
                      hasR == RightOf(copyRoot, copyNode) # NULL
                      tq1 == IF hasL THEN Append(Tail(treeQueue), Left(currentNode))
                             ELSE Tail(treeQueue)
                      cq1 == IF hasL THEN Append(Tail(copyTreeQueue), Left(copyNode))
                             ELSE Tail(copyTreeQueue)
                      tq2 == IF hasR THEN Append(tq1, Right(currentNode)) ELSE tq1
                      cq2 == IF hasR THEN Append(cq1, Right(copyNode)) ELSE cq1
                  IN  copyLoop(r1, count + 1, tq2, copyRoot, cq2)

CopyConstructor(copyTree) ==
    copyLoop(EmptyRoot, 0, <<1>>, copyTree.root,
             <<IF copyTree.root = EmptyRoot THEN NULL ELSE 1>>)

\* BinaryTree<T>::BinaryTree(BinaryTree<T>&&): the same walk, then
\* moveTree.clear().  `moved` is the new object, `source` the argument after.
MoveConstructor(moveTree) ==
    LET res == copyLoop(EmptyRoot, 0, <<1>>, moveTree.root,
                        <<IF moveTree.root = EmptyRoot THEN NULL ELSE 1>>)
    IN  [moved |-> [root |-> res.root, treeSize |-> res.treeSize],
         source |-> IF res.fault THEN moveTree ELSE clear(moveTree),
         fault |-> res.fault]

\* BinaryTree<T>::swap: the pair <<this, other>> after this->swap(other).
swap(this, other) == <<other, this>>

----------------------------------------------------------------------------
\* Stack<T> (src/Stack.hpp).  The nodes of a stack are a chain from top
\* through the previous pointers: `top` is the sequence of the data of that
\* chain, the node top points to first (the empty sequence for nullptr).

Stacks == {"a", "b"}
EmptyStack == [top |-> <<>>, stackSize |-> 0]

\* push without node_newTop->previous = top.
Stack_pushNoLink(s, data) ==
    [top |-> <<data>>, stackSize |-> s.stackSize + 1]

Stack_push(s, data) ==
    [top |-> <<data>> \o s.top, stackSize |-> s.stackSize + 1]

\* pop that counts down without looking whether top is nullptr.
Stack_popNoCheck(s) ==
    IF s.top = <<>>
    THEN [stack |-> [top |-> <<>>, stackSize |-> s.stackSize - 1],
          returned |-> NULL, thrown |-> "none"]
    ELSE [stack |-> [top |-> Tail(s.top), stackSize |-> s.stackSize - 1],
          returned |-> Head(s.top), thrown |-> "none"]

Stack_pop(s) ==
    IF s.top = <<>>
    THEN [stack |-> s, returned |-> NULL, thrown |-> "underflow_error"]
    ELSE [stack |-> [top |-> Tail(s.top), stackSize |-> s.stackSize - 1],
          returned |-> Head(s.top), thrown |-> "none"]

Stack_peek(s) ==
    IF s.top = <<>>
    THEN [stack |-> s, returned |-> NULL, thrown |-> "underflow_error"]
    ELSE [stack |-> s, returned |-> Head(s.top), thrown |-> "none"]

Stack_size(s) == s.stackSize
Stack_empty(s) == s.stackSize = 0
Stack_clear(s) == [top |-> <<>>, stackSize |-> 0]

\* The loop of the copy and of the move constructor: copyNode goes down from
\* copyStack.top through previous, and *currentNode, where the new node is
\* hung, is the previous field of the node made last.
RECURSIVE Stack_copyLoop(_, _)
Stack_copyLoop(this, copyNode) ==
    IF copyNode = <<>>
    THEN this
    ELSE Stack_copyLoop([top |-> Append(this.top, Head(copyNode)),
                         stackSize |-> this.stackSize + 1],
                        Tail(copyNode))

\* Stack(const Stack&).
Stack_CopyConstructor(copyStack) == Stack_copyLoop(EmptyStack, copyStack.top)

\* Stack(Stack&&): the new object and moveStack after the call.
Stack_MoveConstructor(moveStack) ==
    [this |-> Stack_copyLoop(EmptyStack, moveStack.top),
     moveStack |-> Stack_clear(moveStack)]

\* this->swap(other): <<this, other>> after the call.
Stack_swap(this, other) ==
    <<[top |-> other.top, stackSize |-> other.stackSize],
      [top |-> this.top, stackSize |-> this.stackSize]>>

\* *this = copyStack: tempStack(copyStack); tempStack.swap(*this).
Stack_CopyAssign(this, copyStack) ==
    Stack_swap(Stack_CopyConstructor(copyStack), this)[2]

\* *this = std::move(moveStack) for two objects that are not the same one.
Stack_MoveAssign(this, moveStack) ==
    LET swapped == Stack_swap(moveStack, Stack_clear(this))
    IN  [this |-> swapped[2], moveStack |-> swapped[1]]

----------------------------------------------------------------------------
\* SLinkedList<T> (src/unnamed/part_000).  A list object is its fields head,
\* tail and listSize and the heap its pointers point into: `node` maps the
\* address of each node to its data and its next pointer.  Pointers hold an
\* address, or NULL.  While one object is used the heap holds its nodes only.

Lists == {"a", "b"}
EmptyList == [head |-> NULL, tail |-> NULL, listSize |-> 0, node |-> <<>>]

\* new Node<T>(data): the lowest free address.
NewAddress(node) ==
    CHOOSE p \in 1 .. Cardinality(DOMAIN node) + 1 :
        /\ p \notin DOMAIN node
        /\ \A q \in 1 .. p - 1 : q \in DOMAIN node

\* delete p, for a node whose next is nullptr.
Delete(node, p) == [q \in DOMAIN node \ {p} |-> node[q]]

\* temp = temp->next, steps times.
RECURSIVE FollowNext(_, _, _)
FollowNext(node, temp, steps) ==
    IF steps <= 0 THEN temp
    ELSE FollowNext(node, node[temp].next, steps - 1)

\* The addresses of the nodes reached from p through next, p first.
RECURSIVE ChainFrom(_, _, _)
ChainFrom(node, p, fuel) ==
    IF p = NULL \/ p \notin DOMAIN node \/ fuel = 0 THEN <<>>
    ELSE <<p>> \o ChainFrom(node, node[p].next, fuel - 1)

\* The addresses of S in increasing order.
RECURSIVE Sorted(_)
Sorted(S) ==
    IF S = {} THEN <<>>
    ELSE LET least == CHOOSE x \in S : \A y \in S : x <= y
         IN  <<least>> \o Sorted(S \ {least})

\* The program never looks at the value of an address, only at what it points
\* to: two heaps that differ in the addresses of their nodes alone are the
\* same list.  Renamed gives the k-th node of the chain from head the address
\* k (nodes off the chain follow), and every pointer its renamed target; a
\* pointer to a deleted node becomes Dangling.
Dangling == -1
Renamed(l) ==
    LET chain == ChainFrom(l.node, l.head, Cardinality(DOMAIN l.node))
        order == chain \o Sorted(DOMAIN l.node \ {chain[k] : k \in 1 .. Len(chain)})
        rename(p) == IF p = NULL THEN NULL
                     ELSE IF p \in DOMAIN l.node
                     THEN CHOOSE k \in 1 .. Len(order) : order[k] = p
                     ELSE Dangling
    IN  [head |-> rename(l.head), tail |-> rename(l.tail), listSize |-> l.listSize,
         node |-> [k \in 1 .. Len(order) |->
                      [f \in DOMAIN l.node[order[k]] |->
                          IF f = "data" THEN l.node[order[k]][f]
                          ELSE rename(l.node[order[k]][f])]]]

SL_Node(data) == [data |-> data, next |-> NULL]

\* addFirst without node_newHead->next = head.
SL_addFirstNoLink(l, data) ==
    LET node_newHead == NewAddress(l.node)
        node1 == (node_newHead :> SL_Node(data)) @@ l.node
    IN  [head |-> node_newHead,
         tail |-> IF l.head = NULL THEN node_newHead ELSE l.tail,
         listSize |-> l.listSize + 1, node |-> node1]

SL_addFirst(l, data) ==
    LET node_newHead == NewAddress(l.node)
        node1 == (node_newHead :> SL_Node(data)) @@ l.node
    IN  IF l.head = NULL
        THEN [head |-> node_newHead, tail |-> node_newHead,
              listSize |-> l.listSize + 1, node |-> node1]
        ELSE [head |-> node_newHead, tail |-> l.tail, listSize |-> l.listSize + 1,
              node |-> [node1 EXCEPT ![node_newHead].next = l.head]]

SL_addLast(l, data) ==
    LET node_newTail == NewAddress(l.node)
        node1 == (node_newTail :> SL_Node(data)) @@ l.node
    IN  IF l.head = NULL
        THEN [head |-> node_newTail, tail |-> node_newTail,
              listSize |-> l.listSize + 1, node |-> node1]
        ELSE [head |-> l.head, tail |-> node_newTail, listSize |-> l.listSize + 1,
              node |-> [node1 EXCEPT ![l.tail].next = node_newTail]]

\* insert that walks one node too far.
SL_insertOneLate(l, data, index) ==
    IF index <= 0 THEN SL_addFirst(l, data)
    ELSE IF index >= l.listSize THEN SL_addLast(l, data)
    ELSE LET n == NewAddress(l.node)
             node1 == (n :> SL_Node(data)) @@ l.node
             temp == FollowNext(node1, l.head, index)
             node2 == [node1 EXCEPT ![n].next = node1[temp].next]
             node3 == [node2 EXCEPT ![temp].next = n]
         IN  [head |-> l.head,
              tail |-> IF l.tail = temp THEN n ELSE l.tail,
              listSize |-> l.listSize + 1, node |-> node3]

SL_insert(l, data, index) ==
    IF index <= 0 THEN SL_addFirst(l, data)
    ELSE IF index >= l.listSize THEN SL_addLast(l, data)
    ELSE LET n == NewAddress(l.node)
             node1 == (n :> SL_Node(data)) @@ l.node
             temp == FollowNext(node1, l.head, index - 1)
             node2 == [node1 EXCEPT ![n].next = node1[temp].next]
             node3 == [node2 EXCEPT ![temp].next = n]
         IN  [head |-> l.head, tail |-> l.tail, listSize |-> l.listSize + 1,
              node |-> node3]

\* The unlinking that remove(index) and pop(index) share, for an index in
\* range: the list without the node, and the address of the node.
SL_Unlink(l, index) ==
    IF index = 0
    THEN LET head1 == l.node[l.head].next
         IN  [list |-> [head |-> head1,
                        tail |-> IF head1 = NULL THEN NULL ELSE l.tail,
                        listSize |-> l.listSize, node |-> l.node],
              deleteNode |-> l.head]
    ELSE IF index = l.listSize - 1
    THEN LET temp == FollowNext(l.node, l.head, l.listSize - 2)
             deleteNode == l.node[temp].next
         IN  [list |-> [head |-> l.head, tail |-> temp, listSize |-> l.listSize,
                        node |-> [l.node EXCEPT ![temp].next = l.node[deleteNode].next]],
              deleteNode |-> deleteNode]
    ELSE LET temp == FollowNext(l.node, l.head, index - 1)
             deleteNode == l.node[temp].next
         IN  [list |-> [head |-> l.head, tail |-> l.tail, listSize |-> l.listSize,
                        node |-> [l.node EXCEPT ![temp].next = l.node[deleteNode].next]],
              deleteNode |-> deleteNode]

\* deleteNode->next = nullptr; delete deleteNode; listSize--.
SL_DeleteUnlinked(u) ==
    [head |-> u.list.head, tail |-> u.list.tail, listSize |-> u.list.listSize - 1,
     node |-> Delete(u.list.node, u.deleteNode)]

\* remove without its test of the index against listSize.
SL_removeNoUpperBound(l, index) ==
    IF l.listSize = 0 \/ index < 0
    THEN l
    ELSE SL_DeleteUnlinked(SL_Unlink(l, IF index >= l.listSize THEN l.listSize - 1
                                        ELSE index))

SL_remove(l, index) ==
    IF l.listSize = 0 \/ index < 0 \/ index >= l.listSize
    THEN l
    ELSE SL_DeleteUnlinked(SL_Unlink(l, index))

\* delete p: ~Node deletes the node behind next first.
RECURSIVE DeleteChain(_, _)
DeleteChain(node, p) ==
    IF p = NULL \/ p \notin DOMAIN node THEN node
    ELSE DeleteChain(Delete(node, p), node[p].next)

SL_clear(l) ==
    [head |-> NULL, tail |-> NULL, listSize |-> 0, node |-> DeleteChain(l.node, l.head)]

SL_pop(l) ==
    IF l.head = NULL
    THEN [list |-> l, returned |-> NULL, thrown |-> "out_of_range"]
    ELSE LET head1 == l.node[l.head].next
         IN  [list |-> [head |-> head1,
                        tail |-> IF head1 = NULL THEN NULL ELSE l.tail,
                        listSize |-> l.listSize - 1,
                        node |-> Delete(l.node, l.head)],
              returned |-> l.node[l.head].data, thrown |-> "none"]

\* pop(index) that returns the data of the node before the one it deletes.
SL_popReturnsNeighbour(l, index) ==
    IF l.head = NULL
    THEN [list |-> l, returned |-> NULL, thrown |-> "out_of_range"]
    ELSE IF index < 0 \/ index >= l.listSize
    THEN [list |-> l, returned |-> NULL, thrown |-> "out_of_range"]
    ELSE LET u == SL_Unlink(l, index)
         IN  [list |-> SL_DeleteUnlinked(u),
              returned |-> l.node[FollowNext(l.node, l.head, index - 1)].data,
              thrown |-> "none"]

SL_pop_index(l, index) ==
    IF l.head = NULL
    THEN [list |-> l, returned |-> NULL, thrown |-> "out_of_range"]
    ELSE IF index < 0 \/ index >= l.listSize
    THEN [list |-> l, returned |-> NULL, thrown |-> "out_of_range"]
    ELSE LET u == SL_Unlink(l, index)
         IN  [list |-> SL_DeleteUnlinked(u),
              returned |-> l.node[u.deleteNode].data, thrown |-> "none"]

SL_peek(l) ==
    IF l.head = NULL
    THEN [list |-> l, returned |-> NULL, thrown |-> "out_of_range"]
    ELSE [list |-> l, returned |-> l.node[l.head].data, thrown |-> "none"]

\* peek(index) without the listSize-1 shortcut to tail and with a walk that
\* stops one node early.
SL_peekOneEarly(l, index) ==
    IF l.head = NULL
    THEN [list |-> l, returned |-> NULL, thrown |-> "out_of_range"]
    ELSE IF index < 0 \/ index >= l.listSize
    THEN [list |-> l, returned |-> NULL, thrown |-> "out_of_range"]
    ELSE [list |-> l,
          returned |-> l.node[FollowNext(l.node, l.head, index - 1)].data,
          thrown |-> "none"]

SL_peek_index(l, index) ==
    IF l.head = NULL
    THEN [list |-> l, returned |-> NULL, thrown |-> "out_of_range"]
    ELSE IF index < 0 \/ index >= l.listSize
    THEN [list |-> l, returned |-> NULL, thrown |-> "out_of_range"]
    ELSE IF index = 0
    THEN [list |-> l, returned |-> l.node[l.head].data, thrown |-> "none"]
    ELSE IF index = l.listSize - 1
    THEN [list |-> l, returned |-> l.node[l.tail].data, thrown |-> "none"]
    ELSE [list |-> l,
          returned |-> l.node[FollowNext(l.node, l.head, index)].data,
          thrown |-> "none"]

\* operator[]: the code of peek(index), returning a reference.
SL_subscript(l, index) ==
    IF l.head = NULL
    THEN [list |-> l, returned |-> NULL, thrown |-> "out_of_range"]
    ELSE IF index < 0 \/ index >= l.listSize
    THEN [list |-> l, returned |-> NULL, thrown |-> "out_of_range"]
    ELSE IF index = 0
    THEN [list |-> l, returned |-> l.node[l.head].data, thrown |-> "none"]
    ELSE IF index = l.listSize - 1
    THEN [list |-> l, returned |-> l.node[l.tail].data, thrown |-> "none"]
    ELSE [list |-> l,
          returned |-> l.node[FollowNext(l.node, l.head, index)].data,
          thrown |-> "none"]

SL_size(l) == l.listSize
SL_empty(l) == l.listSize = 0

\* Two objects of the class live in one heap: their `node` fields are equal,
\* and the functions below that take two lists take them with that heap.

\* The loop of the copy constructor without tail = *currentNode.
RECURSIVE SL_copyLoopNoTail(_, _, _)
SL_copyLoopNoTail(this, currentNode, copyNode) ==
    IF copyNode = NULL
    THEN this
    ELSE LET new == NewAddress(this.node)
             node1 == (new :> SL_Node(this.node[copyNode].data)) @@ this.node
             node2 == IF currentNode = NULL THEN node1
                      ELSE [node1 EXCEPT ![currentNode].next = new]
         IN  SL_copyLoopNoTail([head |-> IF currentNode = NULL THEN new ELSE this.head,
                                tail |-> this.tail,
                                listSize |-> this.listSize + 1,
                                node |-> node2],
                               new, this.node[copyNode].next)

\* The loop of the copy and of the move constructor.  currentNode is the
\* node whose next field *currentNode is, NULL while *currentNode is head.
RECURSIVE SL_copyLoop(_, _, _)
SL_copyLoop(this, currentNode, copyNode) ==
    IF copyNode = NULL
    THEN this
    ELSE LET new == NewAddress(this.node)
             node1 == (new :> SL_Node(this.node[copyNode].data)) @@ this.node
             node2 == IF currentNode = NULL THEN node1
                      ELSE [node1 EXCEPT ![currentNode].next = new]
         IN  SL_copyLoop([head |-> IF currentNode = NULL THEN new ELSE this.head,
                          tail |-> IF this.node[copyNode].next = NULL
                                   THEN new ELSE this.tail,
                          listSize |-> this.listSize + 1,
                          node |-> node2],
                         new, this.node[copyNode].next)

\* A copy constructor that copies the fields head, tail and listSize.
SL_CopyFields(copyList) == copyList

\* SLinkedList(const SLinkedList&): the new object, in the heap of copyList.
SL_CopyConstructor(copyList) ==
    SL_copyLoop([head |-> NULL, tail |-> NULL, listSize |-> 0, node |-> copyList.node],
                NULL, copyList.head)

\* SLinkedList(SLinkedList&&): the new object and moveList after the call.
SL_MoveConstructor(moveList) ==
    LET this == SL_CopyConstructor(moveList)
        cleared == SL_clear([moveList EXCEPT !.node = this.node])
    IN  [this |-> [this EXCEPT !.node = cleared.node], moveList |-> cleared]

\* ~SLinkedList().
SL_Destructor(l) == SL_clear(l)

\* this->swap(other): <<this, other>> after the call.
SL_swap(this, other) ==
    <<[head |-> other.head, tail |-> other.tail, listSize |-> other.listSize,
       node |-> this.node],
      [head |-> this.head, tail |-> this.tail, listSize |-> this.listSize,
       node |-> other.node]>>

\* *this == compareList for two objects; sameObject is this == &compareList.
RECURSIVE SL_equalsLoop(_, _, _)
SL_equalsLoop(node, currentNode, compareNode) ==
    IF currentNode = NULL \/ compareNode = NULL
    THEN TRUE
    ELSE IF node[currentNode].data # node[compareNode].data
    THEN FALSE
    ELSE SL_equalsLoop(node, node[currentNode].next, node[compareNode].next)

SL_equals(this, compareList, sameObject) ==
    IF sameObject
    THEN TRUE
    ELSE IF this.listSize # compareList.listSize
    THEN FALSE
    ELSE SL_equalsLoop(this.node, this.head, compareList.head)

\* *this = copyList for two objects: tempList(copyList); tempList.swap(*this);
\* tempList is destroyed on return.  The result is *this.
SL_CopyAssign(this, copyList) ==
    LET tempList == SL_CopyConstructor(copyList)
        swapped == SL_swap(tempList, [this EXCEPT !.node = tempList.node])
        destroyed == SL_Destructor(swapped[1])
    IN  [swapped[2] EXCEPT !.node = destroyed.node]

\* *this = std::move(moveList) for two objects that are not the same one:
\* this->clear(); moveList.swap(*this).
SL_MoveAssign(this, moveList) ==
    LET cleared == SL_clear(this)
        swapped == SL_swap([moveList EXCEPT !.node = cleared.node], cleared)
    IN  [this |-> swapped[2], moveList |-> swapped[1]]

----------------------------------------------------------------------------
\* DLinkedList<T> (src/DLinkedList.hpp).  As SLinkedList, with a previous
\* pointer in every node.

\* temp = temp->previous, steps times.
RECURSIVE FollowPrevious(_, _, _)
FollowPrevious(node, temp, steps) ==
    IF steps <= 0 THEN temp
    ELSE FollowPrevious(node, node[temp].previous, steps - 1)

DL_Node(data) == [data |-> data, next |-> NULL, previous |-> NULL]

DL_addFirst(l, data) ==
    LET node_newHead == NewAddress(l.node)
        node1 == (node_newHead :> DL_Node(data)) @@ l.node
    IN  IF l.head = NULL
        THEN [head |-> node_newHead, tail |-> node_newHead,
              listSize |-> l.listSize + 1, node |-> node1]
        ELSE [head |-> node_newHead, tail |-> l.tail, listSize |-> l.listSize + 1,
              node |-> [node1 EXCEPT ![l.head].previous = node_newHead,
                                     ![node_newHead].next = l.head]]

DL_addLast(l, data) ==
    LET node_newTail == NewAddress(l.node)
        node1 == (node_newTail :> DL_Node(data)) @@ l.node
    IN  IF l.head = NULL
        THEN [head |-> node_newTail, tail |-> node_newTail,
              listSize |-> l.listSize + 1, node |-> node1]
        ELSE [head |-> l.head, tail |-> node_newTail, listSize |-> l.listSize + 1,
              node |-> [node1 EXCEPT ![l.tail].next = node_newTail,
                                     ![node_newTail].previous = l.tail]]

DL_insert(l, data, index) ==
    IF index <= 0 THEN DL_addFirst(l, data)
    ELSE IF index >= l.listSize THEN DL_addLast(l, data)
    ELSE LET n == NewAddress(l.node)
             node1 == (n :> DL_Node(data)) @@ l.node
             temp == IF index < l.listSize \div 2
                     THEN FollowNext(node1, l.head, index)
                     ELSE FollowPrevious(node1, l.tail, l.listSize - 1 - index)
             before == node1[temp].previous
             node2 == [node1 EXCEPT ![n].next = temp,
                                    ![n].previous = before,
                                    ![before].next = n,
                                    ![temp].previous = n]
         IN  [head |-> l.head, tail |-> l.tail, listSize |-> l.listSize + 1,
              node |-> node2]

\* The unlinking that remove(index) and pop(index) share, for an index in
\* range: the list without the node, and the address of the node.
DL_Unlink(l, index) ==
    IF index = 0
    THEN LET head1 == l.node[l.head].next
         IN  [list |-> [head |-> head1,
                        tail |-> IF head1 = NULL THEN NULL ELSE l.tail,
                        listSize |-> l.listSize,
                        node |-> IF head1 = NULL THEN l.node
                                 ELSE [l.node EXCEPT ![head1].previous = NULL]],
              deleteNode |-> l.head]
    ELSE IF index = l.listSize - 1
    THEN LET tail1 == l.node[l.tail].previous
         IN  [list |-> [head |-> IF tail1 = NULL THEN NULL ELSE l.head,
                        tail |-> tail1,
                        listSize |-> l.listSize,
                        node |-> IF tail1 = NULL THEN l.node
                                 ELSE [l.node EXCEPT ![tail1].next = NULL]],
              deleteNode |-> l.tail]
    ELSE LET deleteNode ==
                 IF index < l.listSize \div 2
                 THEN FollowNext(l.node, l.node[l.head].next, index - 1)
                 ELSE FollowPrevious(l.node, l.node[l.tail].previous,
                                     l.listSize - 2 - index)
             prev == l.node[deleteNode].previous
             nxt == l.node[deleteNode].next
         IN  [list |-> [head |-> l.head, tail |-> l.tail, listSize |-> l.listSize,
                        node |-> [l.node EXCEPT ![prev].next = nxt,
                                                ![nxt].previous = prev]],
              deleteNode |-> deleteNode]

\* deleteNode->next = nullptr; deleteNode->previous = nullptr;
\* delete deleteNode; listSize--.
DL_DeleteUnlinked(u) ==
    [head |-> u.list.head, tail |-> u.list.tail, listSize |-> u.list.listSize - 1,
     node |-> Delete(u.list.node, u.deleteNode)]

DL_remove(l, index) ==
    IF l.listSize = 0 \/ index < 0 \/ index >= l.listSize
    THEN l
    ELSE DL_DeleteUnlinked(DL_Unlink(l, index))

DL_clear(l) ==
    [head |-> NULL, tail |-> NULL, listSize |-> 0, node |-> DeleteChain(l.node, l.head)]

DL_pop(l) ==
    IF l.head = NULL
    THEN [list |-> l, returned |-> NULL, thrown |-> "out_of_range"]
    ELSE LET u == DL_Unlink(l, 0)
         IN  [list |-> DL_DeleteUnlinked(u),
              returned |-> l.node[l.head].data, thrown |-> "none"]

\* pop(index) that throws nothing for an index past the end and takes the
\* tail instead.
DL_popClamped(l, index) ==
    IF l.head = NULL
    THEN [list |-> l, returned |-> NULL, thrown |-> "out_of_range"]
    ELSE IF index < 0
    THEN [list |-> l, returned |-> NULL, thrown |-> "out_of_range"]
    ELSE LET u == DL_Unlink(l, IF index >= l.listSize THEN l.listSize - 1 ELSE index)
         IN  [list |-> DL_DeleteUnlinked(u),
              returned |-> l.node[u.deleteNode].data, thrown |-> "none"]

DL_pop_index(l, index) ==
    IF l.head = NULL
    THEN [list |-> l, returned |-> NULL, thrown |-> "out_of_range"]
    ELSE IF index < 0 \/ index >= l.listSize
    THEN [list |-> l, returned |-> NULL, thrown |-> "out_of_range"]
    ELSE LET u == DL_Unlink(l, index)
         IN  [list |-> DL_DeleteUnlinked(u),
              returned |-> l.node[u.deleteNode].data, thrown |-> "none"]

DL_peek(l) ==
    IF l.head = NULL
    THEN [list |-> l, returned |-> NULL, thrown |-> "out_of_range"]
    ELSE [list |-> l, returned |-> l.node[l.head].data, thrown |-> "none"]

DL_peek_index(l, index) ==
    IF l.head = NULL
    THEN [list |-> l, returned |-> NULL, thrown |-> "out_of_range"]
    ELSE IF index < 0 \/ index >= l.listSize
    THEN [list |-> l, returned |-> NULL, thrown |-> "out_of_range"]
    ELSE IF index = 0
    THEN [list |-> l, returned |-> l.node[l.head].data, thrown |-> "none"]
    ELSE IF index = l.listSize - 1
    THEN [list |-> l, returned |-> l.node[l.tail].data, thrown |-> "none"]
    ELSE IF index < l.listSize \div 2
    THEN [list |-> l,
          returned |-> l.node[FollowNext(l.node, l.node[l.head].next, index - 1)].data,
          thrown |-> "none"]
    ELSE [list |-> l,
          returned |-> l.node[FollowPrevious(l.node, l.node[l.tail].previous,
                                             l.listSize - 2 - index)].data,
          thrown |-> "none"]

DL_subscript(l, index) ==
    IF l.head = NULL
    THEN [list |-> l, returned |-> NULL, thrown |-> "out_of_range"]
    ELSE IF index < 0 \/ index >= l.listSize
    THEN [list |-> l, returned |-> NULL, thrown |-> "out_of_range"]
    ELSE IF index = 0
    THEN [list |-> l, returned |-> l.node[l.head].data, thrown |-> "none"]
    ELSE IF index = l.listSize - 1
    THEN [list |-> l, returned |-> l.node[l.tail].data, thrown |-> "none"]
    ELSE IF index < l.listSize \div 2
    THEN [list |-> l, returned |-> l.node[FollowNext(l.node, l.head, index)].data,
          thrown |-> "none"]
    ELSE [list |-> l,
          returned |-> l.node[FollowPrevious(l.node, l.tail, l.listSize - 1 - index)].data,
          thrown |-> "none"]

DL_size(l) == l.listSize
DL_empty(l) == l.listSize = 0

\* The loop of the copy constructor without
\* (*currentNode)->previous = previousNode.
RECURSIVE DL_copyLoopNoPrevious(_, _, _)
DL_copyLoopNoPrevious(this, previousNode, copyNode) ==
    IF copyNode = NULL
    THEN [this EXCEPT !.tail = previousNode]
    ELSE LET new == NewAddress(this.node)
             node1 == (new :> DL_Node(this.node[copyNode].data))
                         @@ this.node
             node2 == IF previousNode = NULL THEN node1
                      ELSE [node1 EXCEPT ![previousNode].next = new]
         IN  DL_copyLoopNoPrevious([head |-> IF previousNode = NULL THEN new ELSE this.head,
                          tail |-> this.tail,
                          listSize |-> this.listSize + 1,
                          node |-> node2],
                         new, this.node[copyNode].next)

\* The loop of the copy and of the move constructor, with tail = previousNode
\* after it.  *currentNode is head while previousNode is NULL and the next
\* field of previousNode afterwards.
RECURSIVE DL_copyLoop(_, _, _)
DL_copyLoop(this, previousNode, copyNode) ==
    IF copyNode = NULL
    THEN [this EXCEPT !.tail = previousNode]
    ELSE LET new == NewAddress(this.node)
             node1 == (new :> [DL_Node(this.node[copyNode].data) EXCEPT !.previous = previousNode])
                         @@ this.node
             node2 == IF previousNode = NULL THEN node1
                      ELSE [node1 EXCEPT ![previousNode].next = new]
         IN  DL_copyLoop([head |-> IF previousNode = NULL THEN new ELSE this.head,
                          tail |-> this.tail,
                          listSize |-> this.listSize + 1,
                          node |-> node2],
                         new, this.node[copyNode].next)

\* DLinkedList(const DLinkedList&): the new object, in the heap of copyList.
DL_CopyConstructor(copyList) ==
    DL_copyLoop([head |-> NULL, tail |-> NULL, listSize |-> 0, node |-> copyList.node],
                NULL, copyList.head)

\* DLinkedList(DLinkedList&&): the new object and moveList after the call.
DL_MoveConstructor(moveList) ==
    LET this == DL_CopyConstructor(moveList)
        cleared == DL_clear([moveList EXCEPT !.node = this.node])
    IN  [this |-> [this EXCEPT !.node = cleared.node], moveList |-> cleared]

\* ~DLinkedList().
DL_Destructor(l) == DL_clear(l)

\* this->swap(other): <<this, other>> after the call.
DL_swap(this, other) ==
    <<[head |-> other.head, tail |-> other.tail, listSize |-> other.listSize,
       node |-> this.node],
      [head |-> this.head, tail |-> this.tail, listSize |-> this.listSize,
       node |-> other.node]>>

\* operator== that compares the sizes only.
DL_equalsSizeOnly(this, compareList, sameObject) ==
    IF sameObject THEN TRUE ELSE this.listSize = compareList.listSize

\* *this == compareList for two objects; sameObject is this == &compareList.
RECURSIVE DL_equalsLoop(_, _, _)
DL_equalsLoop(node, currentNode, compareNode) ==
    IF currentNode = NULL \/ compareNode = NULL
    THEN TRUE
    ELSE IF node[currentNode].data # node[compareNode].data
    THEN FALSE
    ELSE DL_equalsLoop(node, node[currentNode].next, node[compareNode].next)

DL_equals(this, compareList, sameObject) ==
    IF sameObject
    THEN TRUE
    ELSE IF this.listSize # compareList.listSize
    THEN FALSE
    ELSE DL_equalsLoop(this.node, this.head, compareList.head)

\* *this = copyList: tempList(copyList); tempList.swap(*this); tempList is
\* destroyed on return.  The result is *this.
DL_CopyAssign(this, copyList) ==
    LET tempList == DL_CopyConstructor(copyList)
        swapped == DL_swap(tempList, [this EXCEPT !.node = tempList.node])
        destroyed == DL_Destructor(swapped[1])
    IN  [swapped[2] EXCEPT !.node = destroyed.node]

\* The move assignment without this->clear().
DL_MoveAssignNoClear(this, moveList) ==
    LET swapped == DL_swap(moveList, this)
    IN  [this |-> swapped[2], moveList |-> swapped[1]]

\* *this = std::move(moveList) for two objects that are not the same one:
\* this->clear(); moveList.swap(*this).
DL_MoveAssign(this, moveList) ==
    LET cleared == DL_clear(this)
        swapped == DL_swap([moveList EXCEPT !.node = cleared.node], cleared)
    IN  [this |-> swapped[2], moveList |-> swapped[1]]

----------------------------------------------------------------------------
\* The state machine.

Obj(t) == [root |-> root[t], treeSize |-> treeSize[t]]

\* The nodes allocated and not yet deleted, over all tree objects.
RECURSIVE SumNodes(_)
SumNodes(T) ==
    IF T = {} THEN 0
    ELSE LET t == CHOOSE x \in T : TRUE
         IN  Cardinality(DOMAIN root[t]) + SumNodes(T \ {t})

LiveNodes == SumNodes(Trees)

Call(op, dst, src, arg) ==
    [op |-> op, dst |-> dst, src |-> src, arg |-> arg, before |-> treeSize[dst]]

Init ==
    /\ root = [t \in Trees |-> EmptyRoot]
    /\ treeSize = [t \in Trees |-> 0]
    /\ fault = FALSE
    /\ lastOp = [op |-> "BinaryTree", dst |-> "a", src |-> "a", arg |-> 0, before |-> 0]
    /\ ret = FALSE
    /\ inserted = <<>>
    /\ stack = [s \in Stacks |-> EmptyStack]
    /\ held = <<>>
    /\ thrown = "none"
    /\ slist = [l \in Lists |-> EmptyList]
    /\ dlist = [l \in Lists |-> EmptyList]

Store(t, tree) ==
    /\ root' = [root EXCEPT ![t] = tree.root]
    /\ treeSize' = [treeSize EXCEPT ![t] = tree.treeSize]

InsertCall(t, e) ==
    /\ ~fault
    /\ Store(t, insert(Obj(t), e))
    /\ lastOp' = Call("insert", t, t, e)
    /\ UNCHANGED <<stack, held, thrown, slist, dlist>>
    /\ UNCHANGED <<fault, ret>>

Insert(t, e) ==
    /\ LiveNodes < MaxNodes
    /\ InsertCall(t, e)
    /\ UNCHANGED inserted

Remove(t, e) ==
    /\ ~fault
    /\ Store(t, remove(Obj(t), e))
    /\ lastOp' = Call("remove", t, t, e)
    /\ UNCHANGED <<stack, held, thrown, slist, dlist>>
    /\ UNCHANGED <<fault, ret, inserted>>

Clear(t) ==
    /\ ~fault
    /\ Store(t, clear(Obj(t)))
    /\ lastOp' = Call("clear", t, t, 0)
    /\ UNCHANGED <<stack, held, thrown, slist, dlist>>
    /\ UNCHANGED <<fault, ret, inserted>>

InvertTree(t) ==
    /\ ~fault
    /\ Store(t, invertTree(Obj(t)))
    /\ lastOp' = Call("invertTree", t, t, 0)
    /\ UNCHANGED <<stack, held, thrown, slist, dlist>>
    /\ UNCHANGED <<fault, ret, inserted>>

Bfsearch(t, e) ==
    /\ ~fault
    /\ ret' = bfsearch(Obj(t), e)
    /\ lastOp' = Call("bfsearch", t, t, e)
    /\ UNCHANGED <<stack, held, thrown, slist, dlist>>
    /\ UNCHANGED <<root, treeSize, fault, inserted>>

Dfsearch(t, e) ==
    /\ ~fault
    /\ ret' = dfsearch(Obj(t), e)
    /\ lastOp' = Call("dfsearch", t, t, e)
    /\ UNCHANGED <<stack, held, thrown, slist, dlist>>
    /\ UNCHANGED <<root, treeSize, fault, inserted>>

Depth(t, e) ==
    /\ ~fault
    /\ ret' = depth(Obj(t), e)
    /\ lastOp' = Call("depth", t, t, e)
    /\ UNCHANGED <<stack, held, thrown, slist, dlist>>
    /\ UNCHANGED <<root, treeSize, fault, inserted>>

\* height that also clears the tree it has measured.
HeightClearing(t, e) ==
    /\ ~fault
    /\ ret' = height(Obj(t), e)
    /\ Store(t, clear(Obj(t)))
    /\ lastOp' = Call("height", t, t, e)
    /\ UNCHANGED <<stack, held, thrown, slist, dlist>>
    /\ UNCHANGED <<fault, inserted>>

Height(t, e) ==
    /\ ~fault
    /\ ret' = height(Obj(t), e)
    /\ lastOp' = Call("height", t, t, e)
    /\ UNCHANGED <<stack, held, thrown, slist, dlist>>
    /\ UNCHANGED <<root, treeSize, fault, inserted>>

PrintInorder(t) ==
    /\ ~fault
    /\ ret' = printInorder(Obj(t))
    /\ lastOp' = Call("printInorder", t, t, 0)
    /\ UNCHANGED <<stack, held, thrown, slist, dlist>>
    /\ UNCHANGED <<root, treeSize, fault, inserted>>

PrintPreorder(t) ==
    /\ ~fault
    /\ ret' = printPreorder(Obj(t))
    /\ lastOp' = Call("printPreorder", t, t, 0)
    /\ UNCHANGED <<stack, held, thrown, slist, dlist>>
    /\ UNCHANGED <<root, treeSize, fault, inserted>>

PrintPostorder(t) ==
    /\ ~fault
    /\ ret' = printPostorder(Obj(t))
    /\ lastOp' = Call("printPostorder", t, t, 0)
    /\ UNCHANGED <<stack, held, thrown, slist, dlist>>
    /\ UNCHANGED <<root, treeSize, fault, inserted>>

\* BinaryTree<T> dst(src): dst is constructed anew as a copy of src.
CopyConstruct(dst, src) ==
    /\ ~fault
    /\ dst # src
    /\ LET res == CopyConstructor(Obj(src))
       IN  /\ fault' = res.fault
           /\ IF res.fault
              THEN UNCHANGED <<root, treeSize>>
              ELSE Store(dst, res)
    /\ lastOp' = Call("copyConstruct", dst, src, 0)
    /\ UNCHANGED <<stack, held, thrown, slist, dlist>>
    /\ UNCHANGED <<ret, inserted>>

\* BinaryTree<T> dst(std::move(src)).
MoveConstruct(dst, src) ==
    /\ ~fault
    /\ dst # src
    /\ LET res == MoveConstructor(Obj(src))
       IN  /\ fault' = res.fault
           /\ IF res.fault
              THEN UNCHANGED <<root, treeSize>>
              ELSE /\ root' = [root EXCEPT ![dst] = res.moved.root,
                                           ![src] = res.source.root]
                   /\ treeSize' = [treeSize EXCEPT ![dst] = res.moved.treeSize,
                                                   ![src] = res.source.treeSize]
    /\ lastOp' = Call("moveConstruct", dst, src, 0)
    /\ UNCHANGED <<stack, held, thrown, slist, dlist>>
    /\ UNCHANGED <<ret, inserted>>

\* dst = src: BinaryTree<T>::operator=(const BinaryTree&).  tempTree(copyTree);
\* tempTree.swap(*this); tempTree is destroyed on return.
CopyAssign(dst, src) ==
    /\ ~fault
    /\ LET tempTree == CopyConstructor(Obj(src))
           swapped == swap([root |-> tempTree.root, treeSize |-> tempTree.treeSize],
                           Obj(dst))
       IN  /\ fault' = tempTree.fault
           /\ IF tempTree.fault
              THEN UNCHANGED <<root, treeSize>>
              ELSE Store(dst, swapped[2])
    /\ lastOp' = Call("copyAssign", dst, src, 0)
    /\ UNCHANGED <<stack, held, thrown, slist, dlist>>
    /\ UNCHANGED <<ret, inserted>>

\* dst = std::move(src): BinaryTree<T>::operator=(BinaryTree&&).
MoveAssign(dst, src) ==
    /\ ~fault
    /\ IF dst = src
       THEN UNCHANGED <<root, treeSize>>
       ELSE LET swapped == swap(Obj(src), clear(Obj(dst)))
            IN  /\ root' = [root EXCEPT ![src] = swapped[1].root,
                                        ![dst] = swapped[2].root]
                /\ treeSize' = [treeSize EXCEPT ![src] = swapped[1].treeSize,
                                                ![dst] = swapped[2].treeSize]
    /\ lastOp' = Call("moveAssign", dst, src, 0)
    /\ UNCHANGED <<stack, held, thrown, slist, dlist>>
    /\ UNCHANGED <<fault, ret, inserted>>

\* One tree object, a: every member function but the constructors.
Next ==
    \/ \E e \in Elems : Insert("a", e)
    \/ \E e \in Elems : Remove("a", e)
    \/ Clear("a")
    \/ InvertTree("a")
    \/ \E e \in Elems : Bfsearch("a", e)
    \/ \E e \in Elems : Dfsearch("a", e)

Spec == Init /\ [][Next]_vars

\* One tree object, a, mutated and measured with depth and height.
NextMeasure ==
    \/ \E e \in Elems : Insert("a", e)
    \/ \E e \in Elems : Remove("a", e)
    \/ Clear("a")
    \/ InvertTree("a")
    \/ \E e \in Elems : Depth("a", e)
    \/ \E e \in Elems : Height("a", e)

SpecMeasure == Init /\ [][NextMeasure]_vars

\* One tree object, a, mutated and then printed in one of the three orders:
\* the print call is the last call of a behaviour.
PrintOps == {"printInorder", "printPreorder", "printPostorder"}

NextPrint ==
    \/ \E e \in Elems : lastOp.op \notin PrintOps /\ Insert("a", e)
    \/ \E e \in Elems : lastOp.op \notin PrintOps /\ Remove("a", e)
    \/ lastOp.op \notin PrintOps /\ Clear("a")
    \/ lastOp.op \notin PrintOps /\ InvertTree("a")
    \/ lastOp.op \notin PrintOps /\ PrintInorder("a")
    \/ lastOp.op \notin PrintOps /\ PrintPreorder("a")
    \/ lastOp.op \notin PrintOps /\ PrintPostorder("a")

SpecPrint == Init /\ [][NextPrint]_vars

\* Two tree objects, a and b, mutated, copied and moved.  A copy is made of a
\* tree of any size; insert, remove and invertTree are explored while the
\* two objects together hold at most MaxLive nodes.
NextCopy ==
    \/ \E t \in Trees, e \in Elems : LiveNodes < MaxLive /\ Insert(t, e)
    \/ \E t \in Trees, e \in Elems : LiveNodes <= MaxLive /\ Remove(t, e)
    \/ \E t \in Trees : Clear(t)
    \/ \E t \in Trees : LiveNodes <= MaxLive /\ InvertTree(t)
    \/ \E dst \in Trees, src \in Trees : CopyConstruct(dst, src)
    \/ \E dst \in Trees, src \in Trees : MoveConstruct(dst, src)
    \/ \E dst \in Trees, src \in Trees : CopyAssign(dst, src)
    \/ \E dst \in Trees, src \in Trees : MoveAssign(dst, src)

SpecCopy == Init /\ [][NextCopy]_vars

\* Only insert calls on an initially empty tree, with the arguments logged.
InsertLogged(e) ==
    /\ Len(inserted) < MaxNodes
    /\ InsertCall("a", e)
    /\ inserted' = Append(inserted, e)

NextInsert == \E e \in Elems : InsertLogged(e)

SpecInsert == Init /\ [][NextInsert]_vars

\* A scenario: up to MaxInserts distinct elements are inserted one after
\* another into an empty tree (the arguments logged), the tree is queried in
\* between, and one remove call ends the scenario.
ScenarioElems == 1 .. MaxInserts
QueryElems == 1 .. MaxInserts + 1

ScenarioInsert(e) ==
    /\ lastOp.op # "remove"
    /\ Len(inserted) < MaxInserts
    /\ \A k \in 1 .. Len(inserted) : inserted[k] # e
    /\ InsertCall("a", e)
    /\ inserted' = Append(inserted, e)

NextScenario ==
    \/ \E e \in ScenarioElems : ScenarioInsert(e)
    \/ \E e \in QueryElems : lastOp.op # "remove" /\ Bfsearch("a", e)
    \/ \E e \in QueryElems : lastOp.op # "remove" /\ Dfsearch("a", e)
    \/ \E e \in QueryElems : lastOp.op # "remove" /\ Depth("a", e)
    \/ \E e \in QueryElems : lastOp.op # "remove" /\ Height("a", e)
    \/ \E e \in QueryElems : lastOp.op # "remove" /\ Remove("a", e)

SpecScenario == Init /\ [][NextScenario]_vars

Size(t) ==
    /\ ~fault
    /\ ret' = size(Obj(t))
    /\ lastOp' = Call("size", t, t, 0)
    /\ UNCHANGED <<stack, held, thrown, slist, dlist>>
    /\ UNCHANGED <<root, treeSize, fault, inserted>>

Empty(t) ==
    /\ ~fault
    /\ ret' = empty(Obj(t))
    /\ lastOp' = Call("empty", t, t, 0)
    /\ UNCHANGED <<stack, held, thrown, slist, dlist>>
    /\ UNCHANGED <<root, treeSize, fault, inserted>>

\* One tree object, a, mutated and then queried once by one of the nine
\* query operations.
QueryOps ==
    {"bfsearch", "dfsearch", "depth", "height", "size", "empty"} \cup PrintOps

NextQuery ==
    \/ \E e \in Elems : lastOp.op \notin QueryOps /\ Insert("a", e)
    \/ \E e \in Elems : lastOp.op \notin QueryOps /\ Remove("a", e)
    \/ lastOp.op \notin QueryOps /\ Clear("a")
    \/ lastOp.op \notin QueryOps /\ InvertTree("a")
    \/ \E e \in Elems : lastOp.op \notin QueryOps /\ Bfsearch("a", e)
    \/ \E e \in Elems : lastOp.op \notin QueryOps /\ Dfsearch("a", e)
    \/ \E e \in Elems : lastOp.op \notin QueryOps /\ Depth("a", e)
    \/ \E e \in Elems : lastOp.op \notin QueryOps /\ Height("a", e)
    \/ lastOp.op \notin QueryOps /\ Size("a")
    \/ lastOp.op \notin QueryOps /\ Empty("a")
    \/ lastOp.op \notin QueryOps /\ PrintInorder("a")
    \/ lastOp.op \notin QueryOps /\ PrintPreorder("a")
    \/ lastOp.op \notin QueryOps /\ PrintPostorder("a")

SpecQuery == Init /\ [][NextQuery]_vars

\* One tree object, a, changed by insert, remove and clear only.
NextPlain ==
    \/ \E e \in Elems : Insert("a", e)
    \/ \E e \in Elems : Remove("a", e)
    \/ Clear("a")

SpecPlain == Init /\ [][NextPlain]_vars

\* One tree object, a, grown to MaxDeep nodes by insert, changed by remove
\* and invertTree, and then asked for the depth of an element.
DeepInsert(e) ==
    /\ Cardinality(DOMAIN root["a"]) < MaxDeep
    /\ InsertCall("a", e)
    /\ UNCHANGED inserted

NextDeep ==
    \/ \E e \in Elems : lastOp.op # "depth" /\ DeepInsert(e)
    \/ \E e \in Elems : lastOp.op # "depth" /\ Remove("a", e)
    \/ lastOp.op # "depth" /\ InvertTree("a")
    \/ \E e \in Elems : lastOp.op # "depth" /\ Depth("a", e)

SpecDeep == Init /\ [][NextDeep]_vars

\* The same tree object without the depth calls.
NextShape ==
    \/ \E e \in Elems : DeepInsert(e)
    \/ \E e \in Elems : Remove("a", e)
    \/ InvertTree("a")

SpecShape == Init /\ [][NextShape]_vars

----------------------------------------------------------------------------
\* The state machine of Stack<T>: one stack object, a.

StackCall(op, s, arg) ==
    [op |-> op, dst |-> s, src |-> s, arg |-> arg, before |-> stack[s].stackSize]

Push(s, data) ==
    /\ stack[s].stackSize < MaxStack
    /\ stack' = [stack EXCEPT ![s] = Stack_push(stack[s], data)]
    /\ held' = Append(held, data)
    /\ thrown' = "none"
    /\ lastOp' = StackCall("Stack::push", s, data)
    /\ UNCHANGED <<root, treeSize, fault, ret, inserted, slist, dlist>>

Pop(s) ==
    /\ LET res == Stack_pop(stack[s])
       IN  /\ stack' = [stack EXCEPT ![s] = res.stack]
           /\ thrown' = res.thrown
           /\ ret' = IF res.thrown = "none" THEN res.returned ELSE ret
    /\ held' = IF held = <<>> THEN held ELSE SubSeq(held, 1, Len(held) - 1)
    /\ lastOp' = StackCall("Stack::pop", s, 0)
    /\ UNCHANGED <<root, treeSize, fault, inserted, slist, dlist>>

Peek(s) ==
    /\ LET res == Stack_peek(stack[s])
       IN  /\ stack' = [stack EXCEPT ![s] = res.stack]
           /\ thrown' = res.thrown
           /\ ret' = IF res.thrown = "none" THEN res.returned ELSE ret
    /\ lastOp' = StackCall("Stack::peek", s, 0)
    /\ UNCHANGED <<root, treeSize, fault, inserted, held, slist, dlist>>

StackClear(s) ==
    /\ stack' = [stack EXCEPT ![s] = Stack_clear(stack[s])]
    /\ held' = <<>>
    /\ thrown' = "none"
    /\ lastOp' = StackCall("Stack::clear", s, 0)
    /\ UNCHANGED <<root, treeSize, fault, ret, inserted, slist, dlist>>

NextStack ==
    \/ \E e \in Elems : Push("a", e)
    \/ Pop("a")
    \/ Peek("a")
    \/ StackClear("a")

SpecStack == Init /\ [][NextStack]_vars

----------------------------------------------------------------------------
\* The state machine of SLinkedList<T> and DLinkedList<T>: one list object,
\* a, of one of the two classes; the first call of a behaviour decides which.

Classes == {"SLinkedList", "DLinkedList"}
Data == 1 .. MaxData
Indexes == -1 .. MaxList

TheList(c, l) == IF c = "SLinkedList" THEN slist[l] ELSE dlist[l]

Using(c) == IF lastOp.op = "BinaryTree" THEN TRUE ELSE lastOp.class = c

ListCall(c, op, l, arg, index) ==
    [op |-> op, class |-> c, dst |-> l, src |-> l, arg |-> arg, index |-> index,
     before |-> TheList(c, l).listSize]

\* The call leaves list l of class c as `list`, returns `returned` (NULL for
\* a void function and when it throws) and throws `exception`.
ListStep(c, l, list, returned, exception) ==
    /\ IF c = "SLinkedList"
       THEN /\ slist' = [slist EXCEPT ![l] =
                            IF list = slist[l] THEN list ELSE Renamed(list)]
            /\ UNCHANGED dlist
       ELSE /\ dlist' = [dlist EXCEPT ![l] =
                            IF list = dlist[l] THEN list ELSE Renamed(list)]
            /\ UNCHANGED slist
    /\ ret' = returned
    /\ thrown' = exception
    /\ UNCHANGED <<root, treeSize, fault, inserted, stack, held>>

AddFirst(c, l, data) ==
    /\ Using(c)
    /\ TheList(c, l).listSize < MaxList
    /\ ListStep(c, l, IF c = "SLinkedList" THEN SL_addFirst(slist[l], data)
                      ELSE DL_addFirst(dlist[l], data), NULL, "none")
    /\ lastOp' = ListCall(c, "addFirst", l, data, 0)

AddLast(c, l, data) ==
    /\ Using(c)
    /\ TheList(c, l).listSize < MaxList
    /\ ListStep(c, l, IF c = "SLinkedList" THEN SL_addLast(slist[l], data)
                      ELSE DL_addLast(dlist[l], data), NULL, "none")
    /\ lastOp' = ListCall(c, "addLast", l, data, 0)

ListInsert(c, l, data, index) ==
    /\ Using(c)
    /\ TheList(c, l).listSize < MaxList
    /\ ListStep(c, l, IF c = "SLinkedList" THEN SL_insert(slist[l], data, index)
                      ELSE DL_insert(dlist[l], data, index), NULL, "none")
    /\ lastOp' = ListCall(c, "insert", l, data, index)

ListRemove(c, l, index) ==
    /\ Using(c)
    /\ ListStep(c, l, IF c = "SLinkedList" THEN SL_remove(slist[l], index)
                      ELSE DL_remove(dlist[l], index), NULL, "none")
    /\ lastOp' = ListCall(c, "remove", l, 0, index)

ListClear(c, l) ==
    /\ Using(c)
    /\ ListStep(c, l, IF c = "SLinkedList" THEN SL_clear(slist[l])
                      ELSE DL_clear(dlist[l]), NULL, "none")
    /\ lastOp' = ListCall(c, "clear", l, 0, 0)

\* A call of a function that returns a value or throws.
ListReturn(c, l, res) == ListStep(c, l, res.list, res.returned, res.thrown)

ListPop(c, l) ==
    /\ Using(c)
    /\ ListReturn(c, l, IF c = "SLinkedList" THEN SL_pop(slist[l]) ELSE DL_pop(dlist[l]))
    /\ lastOp' = ListCall(c, "pop", l, 0, 0)

ListPopIndex(c, l, index) ==
    /\ Using(c)
    /\ ListReturn(c, l, IF c = "SLinkedList" THEN SL_pop_index(slist[l], index)
                        ELSE DL_pop_index(dlist[l], index))
    /\ lastOp' = ListCall(c, "pop(index)", l, 0, index)

ListPeek(c, l) ==
    /\ Using(c)
    /\ ListReturn(c, l, IF c = "SLinkedList" THEN SL_peek(slist[l]) ELSE DL_peek(dlist[l]))
    /\ lastOp' = ListCall(c, "peek", l, 0, 0)

ListPeekIndex(c, l, index) ==
    /\ Using(c)
    /\ ListReturn(c, l, IF c = "SLinkedList" THEN SL_peek_index(slist[l], index)
                        ELSE DL_peek_index(dlist[l], index))
    /\ lastOp' = ListCall(c, "peek(index)", l, 0, index)

ListSubscript(c, l, index) ==
    /\ Using(c)
    /\ ListReturn(c, l, IF c = "SLinkedList" THEN SL_subscript(slist[l], index)
                        ELSE DL_subscript(dlist[l], index))
    /\ lastOp' = ListCall(c, "operator[]", l, 0, index)

NextList ==
    \/ \E c \in Classes, data \in Data : AddFirst(c, "a", data)
    \/ \E c \in Classes, data \in Data : AddLast(c, "a", data)
    \/ \E c \in Classes, data \in Data, index \in Indexes : ListInsert(c, "a", data, index)
    \/ \E c \in Classes, index \in Indexes : ListRemove(c, "a", index)
    \/ \E c \in Classes : ListClear(c, "a")
    \/ \E c \in Classes : ListPop(c, "a")
    \/ \E c \in Classes, index \in Indexes : ListPopIndex(c, "a", index)
    \/ \E c \in Classes : ListPeek(c, "a")
    \/ \E c \in Classes, index \in Indexes : ListPeekIndex(c, "a", index)
    \/ \E c \in Classes, index \in Indexes : ListSubscript(c, "a", index)

SpecList == Init /\ [][NextList]_vars

----------------------------------------------------------------------------
\* Two objects, a and b, of one of the classes Stack, SLinkedList and
\* DLinkedList: each is changed by its member functions and constructed from
\* or assigned the other (or itself).  The two lists live in one heap: the
\* node fields of a and b are equal, so that a node can be reached from
\* both objects if the code makes them share it.

PairClasses == Classes \cup {"Stack"}
PairIndexes == -1 .. MaxPair
\* The code only copies and compares the data: two values tell every order of
\* the elements of an object apart.
PairData == {1, 2}

\* The objects of a list class with the two chains in a canonical place:
\* the nodes of a first, then those of b, then the others.
RenamedPair(ls) ==
    LET node == ls["a"].node
        chainA == ChainFrom(node, ls["a"].head, Cardinality(DOMAIN node))
        setA == {chainA[k] : k \in 1 .. Len(chainA)}
        chainB == ChainFrom(node, ls["b"].head, Cardinality(DOMAIN node))
        restB == SelectSeq(chainB, LAMBDA p : p \notin setA)
        setB == {chainB[k] : k \in 1 .. Len(chainB)}
        order == chainA \o restB \o Sorted(DOMAIN node \ (setA \cup setB))
        rename(p) == IF p = NULL THEN NULL
                     ELSE IF p \in DOMAIN node
                     THEN CHOOSE k \in 1 .. Len(order) : order[k] = p
                     ELSE Dangling
        renamed == [k \in 1 .. Len(order) |->
                       [f \in DOMAIN node[order[k]] |->
                           IF f = "data" THEN node[order[k]][f]
                           ELSE rename(node[order[k]][f])]]
    IN  [l \in Lists |->
            [head |-> rename(ls[l].head), tail |-> rename(ls[l].tail),
             listSize |-> ls[l].listSize, node |-> renamed]]

\* The elements the two objects of class c hold together.
PairLive(c) ==
    IF c = "Stack" THEN stack["a"].stackSize + stack["b"].stackSize
    ELSE TheList(c, "a").listSize + TheList(c, "b").listSize

PairCall(c, op, dst, src, arg, index) ==
    [op |-> op, class |-> c, dst |-> dst, src |-> src, arg |-> arg, index |-> index,
     before |-> IF c = "Stack" THEN stack[dst].stackSize ELSE TheList(c, dst).listSize]

\* A call on class c that leaves the two list objects as ls (with the heap
\* of ls[dst]), returns `returned` and throws `exception`.
PairStep(c, call, ls, returned, exception) ==
    /\ Using(c)
    /\ LET heap == ls[call.dst].node
           stored == RenamedPair([l \in Lists |-> [ls[l] EXCEPT !.node = heap]])
       IN  IF c = "SLinkedList"
           THEN slist' = stored /\ UNCHANGED dlist
           ELSE dlist' = stored /\ UNCHANGED slist
    /\ ret' = returned
    /\ thrown' = exception
    /\ lastOp' = call
    /\ UNCHANGED <<root, treeSize, fault, inserted, stack, held>>

\* The two objects of class c with object l replaced by list.
With(c, l, list) == [x \in Lists |-> IF x = l THEN list ELSE TheList(c, x)]

PairAddFirst(c, l, data) ==
    /\ PairLive(c) < MaxPair
    /\ PairStep(c, PairCall(c, "addFirst", l, l, data, 0),
                With(c, l, IF c = "SLinkedList" THEN SL_addFirst(slist[l], data)
                           ELSE DL_addFirst(dlist[l], data)), NULL, "none")

PairAddLast(c, l, data) ==
    /\ PairLive(c) < MaxPair
    /\ PairStep(c, PairCall(c, "addLast", l, l, data, 0),
                With(c, l, IF c = "SLinkedList" THEN SL_addLast(slist[l], data)
                           ELSE DL_addLast(dlist[l], data)), NULL, "none")

PairInsert(c, l, data, index) ==
    /\ PairLive(c) < MaxPair
    /\ PairStep(c, PairCall(c, "insert", l, l, data, index),
                With(c, l, IF c = "SLinkedList" THEN SL_insert(slist[l], data, index)
                           ELSE DL_insert(dlist[l], data, index)), NULL, "none")

PairRemove(c, l, index) ==
    PairStep(c, PairCall(c, "remove", l, l, 0, index),
             With(c, l, IF c = "SLinkedList" THEN SL_remove(slist[l], index)
                        ELSE DL_remove(dlist[l], index)), NULL, "none")

PairClear(c, l) ==
    PairStep(c, PairCall(c, "clear", l, l, 0, 0),
             With(c, l, IF c = "SLinkedList" THEN SL_clear(slist[l])
                        ELSE DL_clear(dlist[l])), NULL, "none")

PairPop(c, l) ==
    LET res == IF c = "SLinkedList" THEN SL_pop(slist[l]) ELSE DL_pop(dlist[l])
    IN  PairStep(c, PairCall(c, "pop", l, l, 0, 0),
                 With(c, l, res.list), res.returned, res.thrown)

PairPopIndex(c, l, index) ==
    LET res == IF c = "SLinkedList" THEN SL_pop_index(slist[l], index)
               ELSE DL_pop_index(dlist[l], index)
    IN  PairStep(c, PairCall(c, "pop(index)", l, l, 0, index),
                 With(c, l, res.list), res.returned, res.thrown)

\* this == compareList, with `l` for *this and `other` for compareList.
PairEquals(c, l, other) ==
    PairStep(c, PairCall(c, "operator==", l, other, 0, 0),
             [x \in Lists |-> TheList(c, x)],
             IF c = "SLinkedList"
             THEN SL_equals(slist[l], slist[other], l = other)
             ELSE DL_equals(dlist[l], dlist[other], l = other),
             "none")

\* The object dst ends (its destructor runs) and a new object dst is
\* constructed as a copy of src.
PairCopyConstruct(c, dst, src) ==
    /\ dst # src
    /\ LET ended == IF c = "SLinkedList" THEN SL_Destructor(slist[dst])
                    ELSE DL_Destructor(dlist[dst])
           copyList == [TheList(c, src) EXCEPT !.node = ended.node]
           this == IF c = "SLinkedList" THEN SL_CopyConstructor(copyList)
                   ELSE DL_CopyConstructor(copyList)
       IN  PairStep(c, PairCall(c, "copyConstruct", dst, src, 0, 0),
                    With(c, dst, this), NULL, "none")

\* The object dst ends and a new object dst is constructed from
\* std::move(src).
PairMoveConstruct(c, dst, src) ==
    /\ dst # src
    /\ LET ended == IF c = "SLinkedList" THEN SL_Destructor(slist[dst])
                    ELSE DL_Destructor(dlist[dst])
           moveList == [TheList(c, src) EXCEPT !.node = ended.node]
           res == IF c = "SLinkedList" THEN SL_MoveConstructor(moveList)
                  ELSE DL_MoveConstructor(moveList)
       IN  PairStep(c, PairCall(c, "moveConstruct", dst, src, 0, 0),
                    [x \in Lists |-> IF x = dst THEN res.this ELSE res.moveList],
                    NULL, "none")

\* dst = src, dst = dst included.
PairCopyAssign(c, dst, src) ==
    LET this == IF c = "SLinkedList" THEN SL_CopyAssign(slist[dst], slist[src])
                ELSE DL_CopyAssign(dlist[dst], dlist[src])
    IN  PairStep(c, PairCall(c, "copyAssign", dst, src, 0, 0),
                 With(c, dst, this), NULL, "none")

\* dst = std::move(src); with this == &moveList the operator returns at once.
PairMoveAssign(c, dst, src) ==
    LET res == IF c = "SLinkedList" THEN SL_MoveAssign(slist[dst], slist[src])
               ELSE DL_MoveAssign(dlist[dst], dlist[src])
    IN  PairStep(c, PairCall(c, "moveAssign", dst, src, 0, 0),
                 IF dst = src
                 THEN [x \in Lists |-> TheList(c, x)]
                 ELSE [x \in Lists |-> IF x = dst THEN res.this ELSE res.moveList],
                 NULL, "none")

\* The same for two Stack objects.
StackStep(call, ss, returned, exception) ==
    /\ Using("Stack")
    /\ stack' = ss
    /\ ret' = returned
    /\ thrown' = exception
    /\ lastOp' = call
    /\ UNCHANGED <<root, treeSize, fault, inserted, held, slist, dlist>>

PairPush(s, data) ==
    /\ PairLive("Stack") < MaxPair
    /\ StackStep(PairCall("Stack", "push", s, s, data, 0),
                 [stack EXCEPT ![s] = Stack_push(stack[s], data)], NULL, "none")

PairStackPop(s) ==
    LET res == Stack_pop(stack[s])
    IN  StackStep(PairCall("Stack", "pop", s, s, 0, 0),
                  [stack EXCEPT ![s] = res.stack], res.returned, res.thrown)

PairStackClear(s) ==
    StackStep(PairCall("Stack", "clear", s, s, 0, 0),
              [stack EXCEPT ![s] = Stack_clear(stack[s])], NULL, "none")

PairStackCopyConstruct(dst, src) ==
    /\ dst # src
    /\ StackStep(PairCall("Stack", "copyConstruct", dst, src, 0, 0),
                 [stack EXCEPT ![dst] = Stack_CopyConstructor(stack[src])], NULL, "none")

PairStackMoveConstruct(dst, src) ==
    /\ dst # src
    /\ LET res == Stack_MoveConstructor(stack[src])
       IN  StackStep(PairCall("Stack", "moveConstruct", dst, src, 0, 0),
                     [stack EXCEPT ![dst] = res.this, ![src] = res.moveStack],
                     NULL, "none")

PairStackCopyAssign(dst, src) ==
    StackStep(PairCall("Stack", "copyAssign", dst, src, 0, 0),
              [stack EXCEPT ![dst] = Stack_CopyAssign(stack[dst], stack[src])],
              NULL, "none")

PairStackMoveAssign(dst, src) ==
    LET res == Stack_MoveAssign(stack[dst], stack[src])
    IN  StackStep(PairCall("Stack", "moveAssign", dst, src, 0, 0),
                  IF dst = src THEN stack
                  ELSE [stack EXCEPT ![dst] = res.this, ![src] = res.moveStack],
                  NULL, "none")

NextPair ==
    \/ \E c \in Classes, l \in Lists, data \in PairData : PairAddFirst(c, l, data)
    \/ \E c \in Classes, l \in Lists, data \in PairData : PairAddLast(c, l, data)
    \/ \E c \in Classes, l \in Lists, data \in PairData, index \in PairIndexes :
          PairInsert(c, l, data, index)
    \/ \E c \in Classes, l \in Lists, index \in PairIndexes : PairRemove(c, l, index)
    \/ \E c \in Classes, l \in Lists : PairClear(c, l)
    \/ \E c \in Classes, l \in Lists : PairPop(c, l)
    \/ \E c \in Classes, l \in Lists, index \in PairIndexes : PairPopIndex(c, l, index)
    \/ \E c \in Classes, l \in Lists, other \in Lists : PairEquals(c, l, other)
    \/ \E c \in Classes, dst \in Lists, src \in Lists : PairCopyConstruct(c, dst, src)
    \/ \E c \in Classes, dst \in Lists, src \in Lists : PairMoveConstruct(c, dst, src)
    \/ \E c \in Classes, dst \in Lists, src \in Lists : PairCopyAssign(c, dst, src)
    \/ \E c \in Classes, dst \in Lists, src \in Lists : PairMoveAssign(c, dst, src)
    \/ \E s \in Stacks, data \in PairData : PairPush(s, data)
    \/ \E s \in Stacks : PairStackPop(s)
    \/ \E s \in Stacks : PairStackClear(s)
    \/ \E dst \in Stacks, src \in Stacks : PairStackCopyConstruct(dst, src)
    \/ \E dst \in Stacks, src \in Stacks : PairStackMoveConstruct(dst, src)
    \/ \E dst \in Stacks, src \in Stacks : PairStackCopyAssign(dst, src)
    \/ \E dst \in Stacks, src \in Stacks : PairStackMoveAssign(dst, src)

SpecPair == Init /\ [][NextPair]_vars

----------------------------------------------------------------------------
\* Properties.

Values(r) == {r[p] : p \in DOMAIN r}
NodeCount(t) == Cardinality(DOMAIN root[t])
Complete(r) == DOMAIN r = 1 .. Cardinality(DOMAIN r)
NoRepeat(s) == \A i, j \in 1 .. Len(s) : i # j => s[i] # s[j]
MaxOf(S) == CHOOSE x \in S : \A y \in S : y <= x
MinOf(S) == CHOOSE x \in S : \A y \in S : x <= y
\* The number of edges between the root and position p.
RECURSIVE Level(_)
Level(p) == IF p = 1 THEN 0 ELSE 1 + Level(p \div 2)
\* The position that is the mirror image of position p: on the same level, as
\* far from its right end as p is from its left end.
Mirror(p) == 3 * (2 ^ Level(p)) - 1 - p
\* The positions of r that hold element e.
Holders(r, e) == {p \in DOMAIN r : r[p] = e}
MutatorOps == {"insert", "remove", "clear", "invertTree"}

\* C1: in every state reachable by insert, remove, clear, invertTree and the
\* copy and move constructors and assignments, size() is the number of nodes
\* reachable from root, size() is 0 exactly when root is nullptr, and empty()
\* is size() == 0.
C1_SizeConsistent ==
    \A t \in Trees :
        /\ size(Obj(t)) = NodeCount(t)
        /\ (size(Obj(t)) = 0) <=> (root[t] = EmptyRoot)
        /\ empty(Obj(t)) <=> (size(Obj(t)) = 0)

\* A remove has taken one node out of a tree of three.
C1_Witness ==
    /\ lastOp.op = "remove"
    /\ lastOp.before = 3
    /\ treeSize[lastOp.dst] = 2
    /\ NodeCount(lastOp.dst) = 2

\* C2: after insert calls only, on an initially empty tree, the tree is
\* complete in level order, and when no argument was repeated the k-th
\* argument is stored at level-order position k.
C2_InsertFillsLevelOrder ==
    /\ Complete(root["a"])
    /\ NoRepeat(inserted) =>
           /\ DOMAIN root["a"] = 1 .. Len(inserted)
           /\ \A k \in 1 .. Len(inserted) : root["a"][k] = inserted[k]

\* Four distinct elements were inserted: the fourth went below the root's
\* left child.
C2_Witness ==
    /\ Len(inserted) >= 4
    /\ NoRepeat(inserted)
    /\ 4 \in DOMAIN root["a"]

\* C3: insert(e) with e stored at some node changes neither size() nor the
\* tree's nodes.
C3_DuplicateInsertIsNoOp ==
    [][(lastOp'.op = "insert" /\ lastOp'.arg \in Values(root[lastOp'.dst]))
          => (root' = root /\ treeSize' = treeSize)]_vars

\* C4: in every reachable state no two nodes of a tree hold equal values.
C4_NoDuplicateStored ==
    \A t \in Trees : \A p, q \in DOMAIN root[t] :
        p # q => root[t][p] # root[t][q]

\* C5: after remove(x) on a tree that contains x the tree is complete, has
\* size - 1 nodes, and bfsearch(x) returns false.
C5_RemoveKeepsComplete ==
    [][(lastOp'.op = "remove" /\ lastOp'.arg \in Values(root[lastOp'.dst]))
          => LET t == lastOp'.dst
                 after == [root |-> root'[t], treeSize |-> treeSize'[t]]
             IN  /\ Complete(after.root)
                 /\ Cardinality(DOMAIN after.root) = treeSize[t] - 1
                 /\ size(after) = treeSize[t] - 1
                 /\ ~bfsearch(after, lastOp'.arg)]_vars

\* C6: remove(x) on a tree of more than one node that contains x writes the
\* value of the level-order-last node (the right child if present, else the
\* left child, of the level-order-last node with a child) into a node that
\* held x, takes that last node out, decrements size by 1 and leaves every
\* other node as it was.
C6_RemoveMovesLastNode ==
    [][(/\ lastOp'.op = "remove"
        /\ lastOp'.arg \in Values(root[lastOp'.dst])
        /\ NodeCount(lastOp'.dst) > 1)
          => LET t == lastOp'.dst
                 r == root[t]
                 parents == {p \in DOMAIN r :
                                Left(p) \in DOMAIN r \/ Right(p) \in DOMAIN r}
                 lastParent == MaxOf(parents)
                 last == IF Right(lastParent) \in DOMAIN r
                         THEN Right(lastParent) ELSE Left(lastParent)
             IN  /\ last = MaxOf(DOMAIN r)
                 /\ \E target \in DOMAIN r :
                        /\ r[target] = lastOp'.arg
                        /\ root'[t] = [q \in DOMAIN r \ {last} |->
                                          IF q = target THEN r[last] ELSE r[q]]
                 /\ treeSize'[t] = treeSize[t] - 1]_vars

\* A remove has taken the last node out of a four-node tree and its
\* argument is stored no more.
C6_Witness ==
    /\ lastOp.op = "remove"
    /\ lastOp.before = 4
    /\ treeSize["a"] = 3
    /\ DOMAIN root["a"] = {1, 2, 3}
    /\ lastOp.arg \notin Values(root["a"])

\* C7: bfsearch(e) and dfsearch(e) return the same result for every tree and
\* element: true when e is stored at some node, false otherwise.
C7_SearchAgreement ==
    /\ \A t \in Trees, e \in Elems :
          /\ bfsearch(Obj(t), e) = (e \in Values(root[t]))
          /\ dfsearch(Obj(t), e) = (e \in Values(root[t]))
    /\ lastOp.op \in {"bfsearch", "dfsearch"}
          => ret = (lastOp.arg \in Values(root[lastOp.dst]))

\* dfsearch found an element stored only at the right child of the root's
\* right child, in a tree whose root's left child is a leaf.
C7_Witness ==
    /\ lastOp.op = "dfsearch"
    /\ ret = TRUE
    /\ DOMAIN root["a"] = {1, 2, 3, 7}
    /\ root["a"][7] = lastOp.arg
    /\ \A p \in {1, 2, 3} : root["a"][p] # lastOp.arg

\* C8: after B is made a copy of A by copy construction or copy assignment,
\* B has the nodes and size A has, and whatever is then done to one of the
\* two objects leaves the other as it was.
C8_CopyIsIndependent ==
    [][/\ lastOp'.op \in {"copyConstruct", "copyAssign"}
          => /\ ~fault'
             /\ root'[lastOp'.dst] = root[lastOp'.src]
             /\ treeSize'[lastOp'.dst] = treeSize[lastOp'.src]
             /\ root'[lastOp'.src] = root[lastOp'.src]
             /\ treeSize'[lastOp'.src] = treeSize[lastOp'.src]
       /\ lastOp'.op \in MutatorOps
          => \A t \in Trees \ {lastOp'.dst} :
                 root'[t] = root[t] /\ treeSize'[t] = treeSize[t]]_vars

\* C9: after B = move(A) by move construction or move assignment, A.empty()
\* is true and B holds the nodes and size A held.
C9_MoveEmptiesSource ==
    [][(lastOp'.op \in {"moveConstruct", "moveAssign"} /\ lastOp'.dst # lastOp'.src)
          => /\ ~fault'
             /\ empty([root |-> root'[lastOp'.src], treeSize |-> treeSize'[lastOp'.src]])
             /\ root'[lastOp'.src] = EmptyRoot
             /\ root'[lastOp'.dst] = root[lastOp'.src]
             /\ treeSize'[lastOp'.dst] = treeSize[lastOp'.src]]_vars

\* C10: copy-assigning or move-assigning a tree to itself completes and
\* leaves its nodes and size unchanged.
C10_SelfAssignmentSafe ==
    [][(lastOp'.op \in {"copyAssign", "moveAssign"} /\ lastOp'.dst = lastOp'.src)
          => /\ ~fault'
             /\ root' = root
             /\ treeSize' = treeSize]_vars

\* C11: every public operation completes without a fault on every tree, the
\* empty tree included: no call ever dereferences an absent node.
C11_OperationsTotal == fault = FALSE

\* C12: insert(e) with e stored nowhere in the tree puts e at the root of an
\* empty tree, and otherwise at the first empty child slot in breadth-first
\* order, the left slot of a node before its right slot; size grows by
\* exactly 1 and every node there before keeps its value and position.
C12_InsertAtFirstEmptySlot ==
    [][(/\ lastOp'.op = "insert"
        /\ lastOp'.arg \notin Values(root[lastOp'.dst]))
          => LET t == lastOp'.dst
                 r == root[t]
                 open == {p \in DOMAIN r :
                             Left(p) \notin DOMAIN r \/ Right(p) \notin DOMAIN r}
                 first == MinOf(open)
                 slot == IF r = EmptyRoot THEN 1
                         ELSE IF Left(first) \notin DOMAIN r
                         THEN Left(first) ELSE Right(first)
             IN  /\ DOMAIN root'[t] = DOMAIN r \cup {slot}
                 /\ slot \notin DOMAIN r
                 /\ root'[t][slot] = lastOp'.arg
                 /\ \A p \in DOMAIN r : root'[t][p] = r[p]
                 /\ treeSize'[t] = treeSize[t] + 1
                 /\ ~fault']_vars

\* An insert has put a new element at the empty left slot of a root that had
\* only a right child.
C12_Witness ==
    /\ lastOp.op = "insert"
    /\ lastOp.before = 2
    /\ treeSize["a"] = 3
    /\ DOMAIN root["a"] = {1, 2, 3}
    /\ root["a"][2] = lastOp.arg
    /\ root["a"][1] # lastOp.arg
    /\ root["a"][3] # lastOp.arg

\* C13: for every reachable tree, invertTree() followed by invertTree()
\* gives back the shape and the values the tree had.
C13_InvertTwiceRestores ==
    \A t \in Trees : invertTree(invertTree(Obj(t))) = Obj(t)

\* An invertTree call has just turned a four-node tree into one that a
\* further invertTree changes again.
C13_Witness ==
    /\ lastOp.op = "invertTree"
    /\ DOMAIN root["a"] = {1, 2, 3, 4}
    /\ invertTree(Obj("a")).root # root["a"]

\* C14: invertTree() produces the mirror image of the tree: at every node
\* what was the left subtree is the right subtree and the other way round,
\* so each value moves to the mirror position of its level; size and the
\* set of stored values stay, and an empty tree stays empty.
C14_InvertIsMirror ==
    [][lastOp'.op = "invertTree"
          => LET t == lastOp'.dst
                 r == root[t]
             IN  /\ DOMAIN root'[t] = {Mirror(p) : p \in DOMAIN r}
                 /\ \A p \in DOMAIN r : root'[t][Mirror(p)] = r[p]
                 /\ \A p \in DOMAIN r :
                        /\ (Left(p) \in DOMAIN r) = (Right(Mirror(p)) \in DOMAIN root'[t])
                        /\ (Right(p) \in DOMAIN r) = (Left(Mirror(p)) \in DOMAIN root'[t])
                 /\ treeSize'[t] = treeSize[t]
                 /\ Values(root'[t]) = Values(r)
                 /\ (r = EmptyRoot => root'[t] = EmptyRoot)]_vars

\* An invertTree call has left a four-node tree whose only grandchild is
\* the right child of the root's right child.
C14_Witness ==
    /\ lastOp.op = "invertTree"
    /\ lastOp.before = 4
    /\ DOMAIN root["a"] = {1, 2, 3, 7}

\* C15: for an element stored at exactly one node, depth(element) is the
\* number of edges from the root to that node (0 for the root); for an
\* element stored at no node, and on the empty tree, depth returns -1.
C15_DepthIsEdgesFromRoot ==
    /\ \A t \in Trees, e \in Elems :
          LET holders == Holders(root[t], e)
          IN  /\ Cardinality(holders) = 1
                    => depth(Obj(t), e) = Level(CHOOSE p \in holders : TRUE)
              /\ holders = {} => depth(Obj(t), e) = -1
    /\ lastOp.op = "depth"
          => LET holders == Holders(root[lastOp.dst], lastOp.arg)
             IN  /\ Cardinality(holders) = 1
                       => ret = Level(CHOOSE p \in holders : TRUE)
                 /\ holders = {} => ret = -1

\* depth has returned 2 for an element stored only at the right child of the
\* root's right child.
C15_Witness ==
    /\ lastOp.op = "depth"
    /\ ret = 2
    /\ Holders(root["a"], lastOp.arg) = {7}

\* C16: for an element stored at exactly one node, height(element) is the
\* number of edges on the longest downward path from that node to a leaf
\* below it (0 for a leaf); for an element stored at no node, and on the
\* empty tree, height returns -1.
C16_HeightIsEdgesToDeepestLeaf ==
    /\ \A t \in Trees, e \in Elems :
          LET r == root[t]
              holders == Holders(r, e)
              node == CHOOSE p \in holders : TRUE
              below == {Level(q) - Level(node) : q \in {x \in DOMAIN r : InSubtree(x, node)}}
          IN  /\ Cardinality(holders) = 1 => height(Obj(t), e) = MaxOf(below)
              /\ holders = {} => height(Obj(t), e) = -1
    /\ lastOp.op = "height"
          => LET r == root[lastOp.dst]
                 holders == Holders(r, lastOp.arg)
                 node == CHOOSE p \in holders : TRUE
                 below == {Level(q) - Level(node) :
                              q \in {x \in DOMAIN r : InSubtree(x, node)}}
             IN  /\ Cardinality(holders) = 1 => ret = MaxOf(below)
                 /\ holders = {} => ret = -1

\* height has returned 1 for an element stored only at the left child of the
\* root, which has one child while the root's right child is a leaf.
C16_Witness ==
    /\ lastOp.op = "height"
    /\ ret = 1
    /\ DOMAIN root["a"] = {1, 2, 3, 4}
    /\ Holders(root["a"], lastOp.arg) = {2}

\* C17: inserting 1, 2, 3, 4, 5 in that order into an empty tree yields
\* root = 1, 1.left = 2, 1.right = 3, 2.left = 4, 2.right = 5, and on that
\* tree depth(5) = 2, height(1) = 2, bfsearch(4) is true and dfsearch(6) is
\* false.
C17_InsertOneToFive ==
    (inserted = <<1, 2, 3, 4, 5>> /\ lastOp.op # "remove")
        => LET r == root["a"]
               tree == Obj("a")
           IN  /\ DOMAIN r = {1, Left(1), Right(1), Left(Left(1)), Right(Left(1))}
               /\ r[1] = 1
               /\ r[Left(1)] = 2
               /\ r[Right(1)] = 3
               /\ r[Left(Left(1))] = 4
               /\ r[Right(Left(1))] = 5
               /\ depth(tree, 5) = 2
               /\ height(tree, 1) = 2
               /\ bfsearch(tree, 4) = TRUE
               /\ dfsearch(tree, 6) = FALSE
               /\ (lastOp.op = "depth" /\ lastOp.arg = 5) => ret = 2
               /\ (lastOp.op = "height" /\ lastOp.arg = 1) => ret = 2
               /\ (lastOp.op = "bfsearch" /\ lastOp.arg = 4) => ret = TRUE
               /\ (lastOp.op = "dfsearch" /\ lastOp.arg = 6) => ret = FALSE

\* After the inserts of 1, 2, 3, 4, 5 a depth(5) call has returned.
C17_Witness ==
    /\ inserted = <<1, 2, 3, 4, 5>>
    /\ lastOp.op = "depth"
    /\ lastOp.arg = 5
    /\ treeSize["a"] = 5

\* C18: from the tree built by inserting 1, 2, 3, 4, 5 into an empty tree,
\* remove(2) yields root = 1, 1.left = 5, 1.right = 3, 5.left = 4, no right
\* child of 5, and size() = 4.
C18_RemoveTwoOfFive ==
    (inserted = <<1, 2, 3, 4, 5>> /\ lastOp.op = "remove" /\ lastOp.arg = 2)
        => LET r == root["a"]
           IN  /\ DOMAIN r = {1, Left(1), Right(1), Left(Left(1))}
               /\ r[1] = 1
               /\ r[Left(1)] = 5
               /\ r[Right(1)] = 3
               /\ r[Left(Left(1))] = 4
               /\ RightOf(r, Left(1)) = NULL
               /\ size(Obj("a")) = 4

\* remove(2) has been called on the tree built by inserting 1, 2, 3, 4, 5.
C18_Witness ==
    /\ inserted = <<1, 2, 3, 4, 5>>
    /\ lastOp.op = "remove"
    /\ lastOp.arg = 2
    /\ lastOp.before = 5

\* C19: remove(x) on a tree whose only node holds x empties the tree: root
\* is empty afterwards, size() is 0 and empty() is true.
C19_RemoveOnlyNodeEmptiesTree ==
    [][(/\ lastOp'.op = "remove"
        /\ DOMAIN root[lastOp'.dst] = {1}
        /\ root[lastOp'.dst][1] = lastOp'.arg)
          => LET t == lastOp'.dst
                 after == [root |-> root'[t], treeSize |-> treeSize'[t]]
             IN  /\ after.root = EmptyRoot
                 /\ size(after) = 0
                 /\ empty(after) = TRUE
                 /\ ~fault']_vars

\* A remove called on a one-node tree has left the tree empty.
C19_Witness ==
    /\ lastOp.op = "remove"
    /\ lastOp.before = 1
    /\ root["a"] = EmptyRoot
    /\ treeSize["a"] = 0

\* C20: remove(x) on a tree that does not contain x, the empty tree
\* included, changes nothing: shape, values and size stay as they were and
\* no error is raised.
C20_RemoveAbsentIsNoOp ==
    [][(/\ lastOp'.op = "remove"
        /\ lastOp'.arg \notin Values(root[lastOp'.dst]))
          => /\ root' = root
             /\ treeSize' = treeSize
             /\ ~fault']_vars

\* A remove of an element stored nowhere has returned on a three-node tree
\* that still has its three nodes.
C20_Witness ==
    /\ lastOp.op = "remove"
    /\ lastOp.before = 3
    /\ NodeCount("a") = 3
    /\ treeSize["a"] = 3
    /\ lastOp.arg \notin Values(root["a"])

\* The elements of the subtree of r at position p in the three orders.
RECURSIVE Inorder(_, _)
Inorder(r, p) ==
    IF p \notin DOMAIN r THEN <<>>
    ELSE Inorder(r, Left(p)) \o <<r[p]>> \o Inorder(r, Right(p))
RECURSIVE Preorder(_, _)
Preorder(r, p) ==
    IF p \notin DOMAIN r THEN <<>>
    ELSE <<r[p]>> \o Preorder(r, Left(p)) \o Preorder(r, Right(p))
RECURSIVE Postorder(_, _)
Postorder(r, p) ==
    IF p \notin DOMAIN r THEN <<>>
    ELSE Postorder(r, Left(p)) \o Postorder(r, Right(p)) \o <<r[p]>>

\* The elements written between "(" and ")" of an output, in the order written.
ElementsWritten(out) ==
    LET inner == SubSeq(out, 5, Len(out) - 2)
        elems == SelectSeq(inner, LAMBDA tok : tok.kind = "elem")
    IN  [k \in 1 .. Len(elems) |-> elems[k].text]
\* The text of each operand written between "(" and ")".
TextWritten(out) ==
    LET inner == SubSeq(out, 5, Len(out) - 2)
    IN  [k \in 1 .. Len(inner) |-> inner[k].text]
\* The elements of s, one ", " between each two neighbours.
RECURSIVE CommaSeparated(_)
CommaSeparated(s) ==
    IF s = <<>> THEN <<>>
    ELSE IF Len(s) = 1 THEN <<Digit[s[1] + 1]>>
    ELSE <<Digit[s[1] + 1], ", ">> \o CommaSeparated(Tail(s))
DigitsOf(s) == [k \in 1 .. Len(s) |-> Digit[s[k] + 1]]

\* C21: on every reachable tree shape, those made by invertTree included,
\* printInorder, printPreorder and printPostorder each write every stored
\* element exactly once, in inorder (left, node, right), preorder (node,
\* left, right) and postorder (left, right, node) sequence.
C21_PrintTraversalOrder ==
    /\ \A t \in Trees :
          root[t] # EmptyRoot
             => /\ ElementsWritten(printInorder(Obj(t))) = DigitsOf(Inorder(root[t], 1))
                /\ ElementsWritten(printPreorder(Obj(t))) = DigitsOf(Preorder(root[t], 1))
                /\ ElementsWritten(printPostorder(Obj(t))) = DigitsOf(Postorder(root[t], 1))
                /\ Len(Inorder(root[t], 1)) = NodeCount(t)
                /\ Len(Preorder(root[t], 1)) = NodeCount(t)
                /\ Len(Postorder(root[t], 1)) = NodeCount(t)
    /\ (lastOp.op = "printInorder" /\ root[lastOp.dst] # EmptyRoot)
          => ElementsWritten(ret) = DigitsOf(Inorder(root[lastOp.dst], 1))
    /\ (lastOp.op = "printPreorder" /\ root[lastOp.dst] # EmptyRoot)
          => ElementsWritten(ret) = DigitsOf(Preorder(root[lastOp.dst], 1))
    /\ (lastOp.op = "printPostorder" /\ root[lastOp.dst] # EmptyRoot)
          => ElementsWritten(ret) = DigitsOf(Postorder(root[lastOp.dst], 1))

\* printPostorder has written a tree of four distinct elements whose only
\* grandchild hangs to the right of the root's right child.
C21_Witness ==
    /\ lastOp.op = "printPostorder"
    /\ DOMAIN root["a"] = {1, 2, 3, 7}
    /\ Cardinality(Values(root["a"])) = 4
    /\ ElementsWritten(ret) = DigitsOf(<<root["a"][2], root["a"][7], root["a"][3], root["a"][1]>>)

\* C22: on every reachable tree shape, nodes with only a right child
\* included, what each of printInorder, printPreorder and printPostorder
\* writes between the parentheses is comma-separated: one ", " between each
\* two consecutive elements and none before the first or after the last; the
\* empty tree is written as "()".
C22_PrintCommaSeparated ==
    \A t \in Trees :
        IF root[t] = EmptyRoot
        THEN /\ printInorder(Obj(t)) = <<Lit("()"), Lit("\n")>>
             /\ printPreorder(Obj(t)) = <<Lit("()"), Lit("\n")>>
             /\ printPostorder(Obj(t)) = <<Lit("()"), Lit("\n")>>
        ELSE /\ TextWritten(printInorder(Obj(t))) = CommaSeparated(Inorder(root[t], 1))
             /\ TextWritten(printPreorder(Obj(t))) = CommaSeparated(Preorder(root[t], 1))
             /\ TextWritten(printPostorder(Obj(t))) = CommaSeparated(Postorder(root[t], 1))

\* The sequence s back to front.
Reverse(s) == [k \in 1 .. Len(s) |-> s[Len(s) - k + 1]]

\* C23: Stack is LIFO: after any sequence of push, pop, peek and clear,
\* pop() returns and removes the most recently pushed element that has been
\* neither popped nor cleared, peek() returns that element and leaves the
\* stack as it is, and size() is the number of elements held.
C23_StackIsLifo ==
    [][/\ (lastOp'.op = "Stack::pop" /\ held # <<>>)
          => /\ thrown' = "none"
             /\ ret' = held[Len(held)]
             /\ stack'["a"].top = Tail(stack["a"].top)
       /\ (lastOp'.op = "Stack::peek" /\ held # <<>>)
          => /\ thrown' = "none"
             /\ ret' = held[Len(held)]
             /\ stack' = stack
       /\ stack'["a"].top = Reverse(held')
       /\ Stack_size(stack'["a"]) = Len(held')
       /\ Stack_empty(stack'["a"]) = (held' = <<>>)]_vars

\* pop has returned 3, the last of the pushes 1, 2, 3, and 1 and 2 stay held.
C23_Witness ==
    /\ lastOp.op = "Stack::pop"
    /\ lastOp.before = 3
    /\ ret = 3
    /\ held = <<1, 2>>
    /\ stack["a"].top = <<2, 1>>

\* C24: pop() and peek() on an empty Stack raise std::underflow_error and
\* leave the stack empty with size() == 0.
C24_EmptyStackUnderflow ==
    [][(lastOp'.op \in {"Stack::pop", "Stack::peek"} /\ stack[lastOp'.dst].top = <<>>)
          => /\ thrown' = "underflow_error"
             /\ stack'[lastOp'.dst].top = <<>>
             /\ Stack_size(stack'[lastOp'.dst]) = 0
             /\ Stack_empty(stack'[lastOp'.dst])
             /\ stack' = stack]_vars

\* pop has thrown underflow_error on a stack emptied by clear or by pops.
C24_Witness ==
    /\ lastOp.op = "Stack::pop"
    /\ thrown = "underflow_error"
    /\ lastOp.before = 0
    /\ stack["a"] = EmptyStack

----------------------------------------------------------------------------
\* Properties of SLinkedList and DLinkedList.

\* The data of the nodes of list object lst, from head through next.
Contents(lst) ==
    LET chain == ChainFrom(lst.node, lst.head, Cardinality(DOMAIN lst.node))
    IN  [k \in 1 .. Len(chain) |-> lst.node[chain[k]].data]
\* Sequence s without its element at index (counted from 0).
Without(s, index) == SubSeq(s, 1, index) \o SubSeq(s, index + 2, Len(s))
\* The functions of class c.
SizeOf(c, lst) == IF c = "SLinkedList" THEN SL_size(lst) ELSE DL_size(lst)
PopOf(c, lst) == IF c = "SLinkedList" THEN SL_pop(lst) ELSE DL_pop(lst)
PeekOf(c, lst) == IF c = "SLinkedList" THEN SL_peek(lst) ELSE DL_peek(lst)
PopIndexOf(c, lst, index) ==
    IF c = "SLinkedList" THEN SL_pop_index(lst, index) ELSE DL_pop_index(lst, index)
PeekIndexOf(c, lst, index) ==
    IF c = "SLinkedList" THEN SL_peek_index(lst, index) ELSE DL_peek_index(lst, index)
SubscriptOf(c, lst, index) ==
    IF c = "SLinkedList" THEN SL_subscript(lst, index) ELSE DL_subscript(lst, index)
RemoveOf(c, lst, index) ==
    IF c = "SLinkedList" THEN SL_remove(lst, index) ELSE DL_remove(lst, index)
AddFirstOf(c, lst, data) ==
    IF c = "SLinkedList" THEN SL_addFirst(lst, data) ELSE DL_addFirst(lst, data)
AddLastOf(c, lst, data) ==
    IF c = "SLinkedList" THEN SL_addLast(lst, data) ELSE DL_addLast(lst, data)
\* List object l of class c after the step.
TheListAfter(c, l) == IF c = "SLinkedList" THEN slist'[l] ELSE dlist'[l]
IndexedOps == {"pop(index)", "peek(index)", "operator[]"}
OutOfRange(lst) == [list |-> lst, returned |-> NULL, thrown |-> "out_of_range"]

\* C25: on both lists pop() and peek() on an empty list, and pop(index),
\* peek(index) and operator[](index) on an empty list or with index < 0 or
\* index >= size(), raise std::out_of_range and leave contents, order and
\* size of the list as they were.
C25_ListOutOfRange ==
    /\ \A c \in Classes, l \in Lists :
          LET lst == TheList(c, l)
          IN  /\ SizeOf(c, lst) = 0
                    => PopOf(c, lst) = OutOfRange(lst) /\ PeekOf(c, lst) = OutOfRange(lst)
              /\ \A index \in Indexes :
                    (SizeOf(c, lst) = 0 \/ index < 0 \/ index >= SizeOf(c, lst))
                       => /\ PopIndexOf(c, lst, index) = OutOfRange(lst)
                          /\ PeekIndexOf(c, lst, index) = OutOfRange(lst)
                          /\ SubscriptOf(c, lst, index) = OutOfRange(lst)
    /\ (lastOp.op \in {"pop", "peek"} /\ lastOp.before = 0)
          => /\ thrown = "out_of_range"
             /\ Contents(TheList(lastOp.class, lastOp.dst)) = <<>>
             /\ SizeOf(lastOp.class, TheList(lastOp.class, lastOp.dst)) = 0
    /\ (/\ lastOp.op \in IndexedOps
        /\ (lastOp.before = 0 \/ lastOp.index < 0 \/ lastOp.index >= lastOp.before))
          => /\ thrown = "out_of_range"
             /\ Len(Contents(TheList(lastOp.class, lastOp.dst))) = lastOp.before
             /\ SizeOf(lastOp.class, TheList(lastOp.class, lastOp.dst)) = lastOp.before

\* pop(2) has thrown out_of_range on a DLinkedList of two elements, which
\* still has them.
C25_Witness ==
    /\ lastOp.op = "pop(index)"
    /\ lastOp.class = "DLinkedList"
    /\ lastOp.index = 2
    /\ lastOp.before = 2
    /\ thrown = "out_of_range"
    /\ Len(Contents(dlist["a"])) = 2

\* C26: on both lists, for every valid index 0 <= i < size(), peek(i) and
\* operator[](i) both return the i-th element counted from the head,
\* whichever half of the list the index falls in, and change nothing.
C26_IndexedReadReturnsIth ==
    /\ \A c \in Classes, l \in Lists :
          LET lst == TheList(c, l)
          IN  \A index \in 0 .. SizeOf(c, lst) - 1 :
                 LET ith == [list |-> lst, returned |-> Contents(lst)[index + 1],
                             thrown |-> "none"]
                 IN  /\ PeekIndexOf(c, lst, index) = ith
                     /\ SubscriptOf(c, lst, index) = ith
    /\ (/\ lastOp.op \in {"peek(index)", "operator[]"}
        /\ 0 <= lastOp.index
        /\ lastOp.index < lastOp.before)
          => /\ thrown = "none"
             /\ ret = Contents(TheList(lastOp.class, lastOp.dst))[lastOp.index + 1]
             /\ SizeOf(lastOp.class, TheList(lastOp.class, lastOp.dst)) = lastOp.before

\* operator[](1) has returned the second of the four elements of a
\* DLinkedList, the only one of them that is 2.
C26_Witness ==
    /\ lastOp.op = "operator[]"
    /\ lastOp.class = "DLinkedList"
    /\ lastOp.index = 1
    /\ Contents(dlist["a"]) = <<1, 2, 1, 1>>
    /\ ret = 2

\* C27: on both lists insert(data, index) behaves as addFirst(data) when
\* index <= 0 and as addLast(data) when index >= size(); otherwise data is
\* the element at position index afterwards, the elements formerly at
\* positions >= index are one position further, those at positions < index
\* are where they were, and size has grown by 1.
C27_InsertAtIndex ==
    [][lastOp'.op = "insert"
          => LET c == lastOp'.class
                 lst == TheList(c, lastOp'.dst)
                 pre == Contents(lst)
                 post == Contents(TheListAfter(c, lastOp'.dst))
                 data == lastOp'.arg
                 index == lastOp'.index
             IN  /\ index <= 0
                       => /\ TheListAfter(c, lastOp'.dst) = Renamed(AddFirstOf(c, lst, data))
                          /\ post = <<data>> \o pre
                 /\ index >= SizeOf(c, lst)
                       => /\ TheListAfter(c, lastOp'.dst) = Renamed(AddLastOf(c, lst, data))
                          /\ post = Append(pre, data)
                 /\ (0 < index /\ index < SizeOf(c, lst))
                       => post = SubSeq(pre, 1, index) \o <<data>>
                                    \o SubSeq(pre, index + 1, Len(pre))
                 /\ SizeOf(c, TheListAfter(c, lastOp'.dst)) = SizeOf(c, lst) + 1
                 /\ thrown' = "none"]_vars

\* insert(2, 1) has put a 2 between the first and the second element of a
\* DLinkedList of four elements.
C27_Witness ==
    /\ lastOp.op = "insert"
    /\ lastOp.class = "DLinkedList"
    /\ lastOp.arg = 2
    /\ lastOp.index = 1
    /\ lastOp.before = 4
    /\ Contents(dlist["a"]) = <<1, 2, 1, 1, 1>>

\* C28: on both lists addFirst(x) makes x the element at index 0 and
\* addLast(x) makes x the element at index size()-1; the elements held
\* before keep their order, and size grows by 1.
C28_AddFirstAddLast ==
    [][lastOp'.op \in {"addFirst", "addLast"}
          => LET c == lastOp'.class
                 lst == TheList(c, lastOp'.dst)
                 pre == Contents(lst)
                 after == TheListAfter(c, lastOp'.dst)
                 post == Contents(after)
             IN  /\ SizeOf(c, after) = SizeOf(c, lst) + 1
                 /\ Len(post) = SizeOf(c, after)
                 /\ lastOp'.op = "addFirst"
                       => /\ post[1] = lastOp'.arg
                          /\ PeekIndexOf(c, after, 0).returned = lastOp'.arg
                          /\ Tail(post) = pre
                 /\ lastOp'.op = "addLast"
                       => /\ post[Len(post)] = lastOp'.arg
                          /\ PeekIndexOf(c, after, SizeOf(c, after) - 1).returned = lastOp'.arg
                          /\ SubSeq(post, 1, Len(post) - 1) = pre]_vars

\* addFirst(2) has put a 2 before the two elements of an SLinkedList.
C28_Witness ==
    /\ lastOp.op = "addFirst"
    /\ lastOp.class = "SLinkedList"
    /\ lastOp.arg = 2
    /\ lastOp.before = 2
    /\ Contents(slist["a"]) = <<2, 1, 1>>

\* C29: on both lists remove(index) does nothing, and raises no error, when
\* the list is empty or index is out of range; for a valid index it removes
\* exactly the element at that position, the others keep their order, and
\* size drops by 1.
C29_RemoveAtIndex ==
    [][lastOp'.op = "remove"
          => LET c == lastOp'.class
                 lst == TheList(c, lastOp'.dst)
                 pre == Contents(lst)
                 after == TheListAfter(c, lastOp'.dst)
                 index == lastOp'.index
             IN  /\ thrown' = "none"
                 /\ IF SizeOf(c, lst) = 0 \/ index < 0 \/ index >= SizeOf(c, lst)
                    THEN after = lst
                    ELSE /\ Contents(after) = Without(pre, index)
                         /\ SizeOf(c, after) = SizeOf(c, lst) - 1]_vars

\* remove(1) has left three 1s of the four elements of an SLinkedList.
C29_Witness ==
    /\ lastOp.op = "remove"
    /\ lastOp.class = "SLinkedList"
    /\ lastOp.index = 1
    /\ lastOp.before = 4
    /\ Contents(slist["a"]) = <<1, 1, 1>>

\* C30: on both lists, for every valid index pop(index) returns the element
\* peek(index) would have returned and leaves the list as remove(index)
\* would; pop() is pop(0).
C30_PopIsPeekThenRemove ==
    [][LET c == lastOp'.class
           lst == TheList(c, lastOp'.dst)
           after == TheListAfter(c, lastOp'.dst)
       IN  /\ (/\ lastOp'.op = "pop(index)"
               /\ 0 <= lastOp'.index
               /\ lastOp'.index < SizeOf(c, lst))
                 => /\ thrown' = "none"
                    /\ ret' = PeekIndexOf(c, lst, lastOp'.index).returned
                    /\ after = Renamed(RemoveOf(c, lst, lastOp'.index))
                    /\ Contents(after) = Without(Contents(lst), lastOp'.index)
           /\ lastOp'.op = "pop"
                 => LET res == PopIndexOf(c, lst, 0)
                    IN  /\ thrown' = res.thrown
                        /\ ret' = res.returned
                        /\ after = Renamed(res.list)]_vars

\* pop(2) has returned a 2 from a DLinkedList of four elements and left
\* three 1s.
C30_Witness ==
    /\ lastOp.op = "pop(index)"
    /\ lastOp.class = "DLinkedList"
    /\ lastOp.index = 2
    /\ lastOp.before = 4
    /\ ret = 2
    /\ Contents(dlist["a"]) = <<1, 1, 1>>

----------------------------------------------------------------------------
\* C34: for an element stored at more than one node and not at the root,
\* depth(element) returns the largest depth among the nodes holding it, also
\* when one of these nodes is a descendant of another.
C34_DeeperOccurrenceWins ==
    /\ \A t \in Trees, e \in Elems :
          LET holders == Holders(root[t], e)
          IN  (Cardinality(holders) > 1 /\ 1 \notin holders)
                 => depth(Obj(t), e) = MaxOf({Level(p) : p \in holders})
    /\ lastOp.op = "depth"
          => LET holders == Holders(root[lastOp.dst], lastOp.arg)
             IN  (Cardinality(holders) > 1 /\ 1 \notin holders)
                    => ret = MaxOf({Level(p) : p \in holders})

----------------------------------------------------------------------------
\* How many nodes of r hold element e.
Occurrences(r, e) == Cardinality(Holders(r, e))

\* The node remove(element) unlinks and deletes from a tree r of more than
\* one node that holds element: the right child of deepestParent, or its
\* left child when it has no right child.
Unlinked(r, element) ==
    LET s == removeLoop(r, <<1>>, element, NULL, NULL)
    IN  IF RightOf(r, s.deepestParent) # NULL
        THEN Right(s.deepestParent)
        ELSE Left(s.deepestParent)

\* C35: in every reachable tree, those made by invertTree included, the node
\* that remove unlinks and deletes has no children, so that its destructor
\* destroys one node only and no element but the removed one is lost.
C35_RemoveDeletesOneLeaf ==
    /\ \A e \in Elems :
          LET r == root["a"]
              after == remove(Obj("a"), e).root
          IN  (Holders(r, e) # {} /\ Cardinality(DOMAIN r) > 1)
                 => /\ LeftOf(r, Unlinked(r, e)) = NULL
                    /\ RightOf(r, Unlinked(r, e)) = NULL
                    /\ DOMAIN after = DOMAIN r \ {Unlinked(r, e)}
                    /\ Occurrences(after, e) = Occurrences(r, e) - 1
                    /\ \A x \in Elems \ {e} : Occurrences(after, x) = Occurrences(r, x)
    /\ lastOp.op = "remove"
          => Cardinality(DOMAIN root["a"]) >= lastOp.before - 1

\* remove has taken one node out of a tree of five nodes that invertTree
\* had turned over: the four nodes left are the root, its two children and
\* the left child of its right child.
C35_Witness ==
    /\ lastOp.op = "remove"
    /\ lastOp.before = 5
    /\ DOMAIN root["a"] = {1, 2, 3, 6}
    /\ Cardinality(Values(root["a"])) = 4

----------------------------------------------------------------------------
\* C36: in every state reachable from the empty tree by insert, remove and
\* clear only, the tree is complete in level order and no two of its nodes
\* hold equal values.
C36_PlainTreeCompleteNoDuplicates ==
    /\ Complete(root["a"])
    /\ \A p, q \in DOMAIN root["a"] : p # q => root["a"][p] # root["a"][q]

\* remove has taken an element out of a tree of four nodes and the root of
\* the three left holds a larger value than its two children, as it does
\* when the value of the fourth node was written over the root's.
C36_Witness ==
    /\ lastOp.op = "remove"
    /\ lastOp.before = 4
    /\ DOMAIN root["a"] = {1, 2, 3}
    /\ lastOp.arg \notin Values(root["a"])
    /\ \A p \in {2, 3} : root["a"][p] < root["a"][1]

----------------------------------------------------------------------------
----------------------------------------------------------------------------
\* Two lists have the same size and equal elements at every index.
SameElements(c, this, compareList) ==
    /\ SizeOf(c, this) = SizeOf(c, compareList)
    /\ Len(Contents(this)) = Len(Contents(compareList))
    /\ \A k \in 1 .. Len(Contents(this)) : Contents(this)[k] = Contents(compareList)[k]

EqualsOf(c, this, compareList, sameObject) ==
    IF c = "SLinkedList" THEN SL_equals(this, compareList, sameObject)
    ELSE DL_equals(this, compareList, sameObject)

\* C31: on both lists operator== returns true exactly when the two lists are
\* the same object or have the same size and equal elements at every index,
\* and false otherwise; the same elements at other indices compare unequal.
C31_EqualityIsElementwise ==
    /\ \A c \in Classes, l \in Lists, other \in Lists :
          EqualsOf(c, TheList(c, l), TheList(c, other), l = other)
             = (l = other \/ SameElements(c, TheList(c, l), TheList(c, other)))
    /\ lastOp.op = "operator=="
          => ret = (\/ lastOp.dst = lastOp.src
                    \/ SameElements(lastOp.class, TheList(lastOp.class, lastOp.dst),
                                    TheList(lastOp.class, lastOp.src)))

\* operator== has returned false for the DLinkedList 1, 2 and the
\* DLinkedList 2, 1.
C31_Witness ==
    /\ lastOp.op = "operator=="
    /\ lastOp.class = "DLinkedList"
    /\ lastOp.dst = "a"
    /\ lastOp.src = "b"
    /\ Contents(dlist["a"]) = <<1, 2>>
    /\ Contents(dlist["b"]) = <<2, 1>>
    /\ ret = FALSE

----------------------------------------------------------------------------
\* The elements of object x of class c from the first to the last (for a
\* Stack from the top down), and its size, before and after a step.
PairContents(c, x) == IF c = "Stack" THEN stack[x].top ELSE Contents(TheList(c, x))
PairContentsAfter(c, x) ==
    IF c = "Stack" THEN stack'[x].top ELSE Contents(TheListAfter(c, x))
PairSize(c, x) ==
    IF c = "Stack" THEN Stack_size(stack[x]) ELSE SizeOf(c, TheList(c, x))
PairSizeAfter(c, x) ==
    IF c = "Stack" THEN Stack_size(stack'[x]) ELSE SizeOf(c, TheListAfter(c, x))

CopyOps == {"copyConstruct", "copyAssign"}
MoveOps == {"moveConstruct", "moveAssign"}
\* The member functions that change the one object they are called on.
ChangeOps == {"push", "addFirst", "addLast", "insert", "remove", "clear", "pop",
              "pop(index)"}

----------------------------------------------------------------------------
PairEmptyAfter(c, x) ==
    IF c = "Stack" THEN Stack_empty(stack'[x])
    ELSE IF c = "SLinkedList" THEN SL_empty(slist'[x])
    ELSE DL_empty(dlist'[x])

\* C33: for Stack, SLinkedList and DLinkedList of any size, after a move
\* construction or move assignment from a distinct source the destination
\* holds the former elements of the source in the same order, its own former
\* elements are gone, and the source is empty with size() == 0;
\* move-assigning an object to itself leaves it unchanged.
C33_MoveTakesAndEmptiesSource ==
    [][LET c == lastOp'.class
           dst == lastOp'.dst
           src == lastOp'.src
       IN  /\ (lastOp'.op \in MoveOps /\ dst # src)
                 => /\ PairContentsAfter(c, dst) = PairContents(c, src)
                    /\ PairSizeAfter(c, dst) = PairSize(c, src)
                    /\ PairContentsAfter(c, src) = <<>>
                    /\ PairSizeAfter(c, src) = 0
                    /\ PairEmptyAfter(c, src)
                    /\ thrown' = "none"
           /\ (lastOp'.op = "moveAssign" /\ dst = src)
                 => /\ stack' = stack
                    /\ slist' = slist
                    /\ dlist' = dlist
                    /\ thrown' = "none"]_vars

\* b = std::move(a) has given the DLinkedList b, which held one element, the
\* elements 1, 2 of the DLinkedList a, and a is empty.
C33_Witness ==
    /\ lastOp.op = "moveAssign"
    /\ lastOp.class = "DLinkedList"
    /\ lastOp.dst = "b"
    /\ lastOp.src = "a"
    /\ lastOp.before = 1
    /\ Contents(dlist["b"]) = <<1, 2>>
    /\ dlist["a"].head = NULL
    /\ dlist["a"].listSize = 0

----------------------------------------------------------------------------
\* The nodes reached from the head of lst through next, with one step more
\* than the heap has nodes allowed: a cycle gives a chain longer than the heap.
Reached(lst) == ChainFrom(lst.node, lst.head, Cardinality(DOMAIN lst.node) + 1)

\* Every pointer field of lst and of the nodes reached from its head is NULL
\* or the address of a node.
NoStrayPointer(lst) ==
    /\ lst.head \in DOMAIN lst.node \cup {NULL}
    /\ lst.tail \in DOMAIN lst.node \cup {NULL}
    /\ \A k \in 1 .. Len(Reached(lst)) :
          \A f \in DOMAIN lst.node[Reached(lst)[k]] \ {"data"} :
              lst.node[Reached(lst)[k]][f] \in DOMAIN lst.node \cup {NULL}

\* C38: in every DLinkedList state reached by addFirst, addLast, insert,
\* remove, pop, clear, copy and move the links are consistent: head is absent
\* iff tail is absent iff size() == 0; head has no previous and tail no next;
\* n.next.previous is n for every node n with a next node; following next
\* from head visits exactly size() nodes and ends at tail.
C38_DoubleLinksConsistent ==
    \A l \in Lists :
        LET lst == dlist[l]
            chain == Reached(lst)
        IN  /\ NoStrayPointer(lst)
            /\ (lst.head = NULL) = (lst.tail = NULL)
            /\ (lst.head = NULL) = (DL_size(lst) = 0)
            /\ lst.head # NULL => lst.node[lst.head].previous = NULL
            /\ lst.tail # NULL => lst.node[lst.tail].next = NULL
            /\ \A k \in 1 .. Len(chain) :
                  lst.node[chain[k]].next # NULL
                     => lst.node[lst.node[chain[k]].next].previous = chain[k]
            /\ Len(chain) = DL_size(lst)
            /\ lst.tail # NULL => chain[Len(chain)] = lst.tail

\* pop(1) has taken the 2 from between the two 1s of a DLinkedList, and the
\* other DLinkedList object holds an element as well.
C38_Witness ==
    /\ lastOp.op = "pop(index)"
    /\ lastOp.class = "DLinkedList"
    /\ lastOp.index = 1
    /\ lastOp.before = 3
    /\ ret = 2
    /\ Contents(dlist[lastOp.dst]) = <<1, 1>>
    /\ \E other \in Lists \ {lastOp.dst} : dlist[other].listSize = 1

\* C39: in every SLinkedList state reached by addFirst, addLast, insert,
\* remove, pop, clear, copy and move, tail is the last node reached from
\* head (absent exactly when head is absent), tail has no next node, and
\* size() is the number of nodes reached from head.
C39_SingleLinksConsistent ==
    \A l \in Lists :
        LET lst == slist[l]
            chain == Reached(lst)
        IN  /\ NoStrayPointer(lst)
            /\ (lst.head = NULL) = (lst.tail = NULL)
            /\ lst.tail # NULL => chain[Len(chain)] = lst.tail
            /\ lst.tail # NULL => lst.node[lst.tail].next = NULL
            /\ Len(chain) = SL_size(lst)

\* An SLinkedList object has been constructed as a copy of the SLinkedList
\* 1, 2, 2.
C39_Witness ==
    /\ lastOp.op = "copyConstruct"
    /\ lastOp.class = "SLinkedList"
    /\ Contents(slist[lastOp.dst]) = <<1, 2, 2>>
    /\ Contents(slist[lastOp.src]) = <<1, 2, 2>>

====
